---- MODULE Spec2Model ----
(***************************************************************************)
(* Intel 8080 emulator: instruction codec (coding.rs, coding/encode.rs,    *)
(* coding/decode.rs, coding/reader.rs), the machine executor (machine.rs)  *)
(* and the instruction model (instruction.rs).                             *)
(*                                                                         *)
(* Three specifications share the variables below:                         *)
(*   Spec       a machine with a program image in memory, driven by the    *)
(*              host calling run_cycle;                                    *)
(*   SpecExec   Machine::execute applied to one instruction on a machine   *)
(*              whose registers and flags were set directly, as the unit   *)
(*              tests of machine.rs do;                                    *)
(*   SpecCodec  encode / decode applied to instructions and byte strings.  *)
(***************************************************************************)
EXTENDS Integers, Sequences, FiniteSets, TLC

VARIABLES
    state,      \* Machine.state : MachineState
    memory,     \* Machine.memory : sparse image of the byte array (absent = 0)
    registers,  \* Machine.registers : RegisterMap
    conditions, \* Machine.conditions : ConditionRegisters
    pc,         \* Machine.pc : Data16
    stdout,     \* Machine.stdout : Vec<u8>
    stdin,      \* bytes still to be read from the host's standard input
    cycles,     \* number of run_cycle calls the host has made
    instr,      \* instruction last decoded by load_execute / handed to execute
    outcome,    \* ExecutionResult of the last execute, "None" before any
    prev,       \* the machine as it was before the last operation
    codec,      \* state of the codec harness (SpecCodec)
    asm,        \* the assembler's source and result (SpecAsm)
    ui          \* ui::start: the Ui, its thread, the quit channel (SpecUi)

machineVars == <<state, memory, registers, conditions, pc, stdout>>
vars == <<state, memory, registers, conditions, pc, stdout, stdin, cycles,
          instr, outcome, prev, codec, asm, ui>>

-----------------------------------------------------------------------------
(* Bounds of the model.                                                    *)

\* The host stops calling run_cycle after this many calls.
MaxCycles == 7
\* Number of bytes of memory[pc..] handed to the decoder (no parser peeks
\* further than three bytes).
FetchWindow == 3

-----------------------------------------------------------------------------
(* Fixed-width integer helpers.                                            *)

RECURSIVE BitAnd(_, _)
BitAnd(a, b) ==
    IF a = 0 \/ b = 0 THEN 0
    ELSE ((a % 2) * (b % 2)) + 2 * BitAnd(a \div 2, b \div 2)

RECURSIVE BitOr(_, _)
BitOr(a, b) ==
    IF a = 0 THEN b
    ELSE IF b = 0 THEN a
    ELSE (IF (a % 2) + (b % 2) > 0 THEN 1 ELSE 0) + 2 * BitOr(a \div 2, b \div 2)

RECURSIVE BitXor(_, _)
BitXor(a, b) ==
    IF a = 0 THEN b
    ELSE IF b = 0 THEN a
    ELSE (((a % 2) + (b % 2)) % 2) + 2 * BitXor(a \div 2, b \div 2)

\* !x on a u8
BitNot8(a) == 255 - a

\* x >> n and (x << n) as u8
Shr(a, n) == a \div (2 ^ n)
Shl8(a, n) == (a * (2 ^ n)) % 256

\* u8::count_ones
RECURSIVE count_ones(_)
count_ones(a) == IF a = 0 THEN 0 ELSE (a % 2) + count_ones(a \div 2)

\* `b as u8` for a bool
BoolToInt(b) == IF b THEN 1 ELSE 0

-----------------------------------------------------------------------------
(* instruction.rs : the instruction model.                                 *)

Registers == {"B", "C", "D", "E", "H", "L", "M", "A"}
RegisterPairs == {"Bc", "De", "Hl", "Sp"}
RegisterPairsIndirect == {"Bc", "De"}
RegisterPairsOrStatus == {"Bc", "De", "Hl", "StatusWord"}
Conditions == {"NoZero", "Zero", "NoCarry", "Carry",
               "ParityOdd", "ParityEven", "Positive", "Minus"}

\* Register::repr / the enum discriminants
Register_repr(r) ==
    CASE r = "A" -> 7 [] r = "B" -> 0 [] r = "C" -> 1 [] r = "D" -> 2
      [] r = "E" -> 3 [] r = "H" -> 4 [] r = "L" -> 5 [] r = "M" -> 6

\* TryFrom<u8> for Register ("Err" for Err(()))
Register_try_from(v) ==
    CASE v = 7 -> "A" [] v = 0 -> "B" [] v = 1 -> "C" [] v = 2 -> "D"
      [] v = 3 -> "E" [] v = 4 -> "H" [] v = 5 -> "L" [] v = 6 -> "M"
      [] OTHER -> "Err"

\* RegisterPair::repr, RegisterPairIndirect::repr, RegisterPairOrStatus::repr
RegisterPair_repr(rp) ==
    CASE rp = "Bc" -> 0 [] rp = "De" -> 1 [] rp = "Hl" -> 2 [] rp = "Sp" -> 3
      [] rp = "StatusWord" -> 3

RegisterPair_try_from(v) ==
    CASE v = 0 -> "Bc" [] v = 1 -> "De" [] v = 2 -> "Hl" [] v = 3 -> "Sp"
      [] OTHER -> "Err"

RegisterPairIndirect_try_from(v) ==
    CASE v = 0 -> "Bc" [] v = 1 -> "De" [] OTHER -> "Err"

RegisterPairOrStatus_try_from(v) ==
    CASE v = 0 -> "Bc" [] v = 1 -> "De" [] v = 2 -> "Hl" [] v = 3 -> "StatusWord"
      [] OTHER -> "Err"

\* `cc as u8` : the discriminants of Condition
Condition_repr(cc) ==
    CASE cc = "Carry" -> 3 [] cc = "NoCarry" -> 2 [] cc = "Zero" -> 1
      [] cc = "NoZero" -> 0 [] cc = "Positive" -> 6 [] cc = "Minus" -> 7
      [] cc = "ParityEven" -> 5 [] cc = "ParityOdd" -> 4

Condition_try_from(v) ==
    CASE v = 3 -> "Carry" [] v = 2 -> "NoCarry" [] v = 1 -> "Zero"
      [] v = 0 -> "NoZero" [] v = 6 -> "Positive" [] v = 7 -> "Minus"
      [] v = 5 -> "ParityEven" [] v = 4 -> "ParityOdd" [] OTHER -> "Err"

\* Data16 { low, high }
Data16_new(low, high) == [low |-> low, high |-> high]
Data16_ZERO == Data16_new(0, 0)
\* Data16::value : low + (high << 8)
Data16_value(d) == d.low + d.high * 256
\* From<u16> for Data16
Data16_from(v) == [low |-> BitAnd(v, 255), high |-> Shr(v, 8)]
\* Option<Data16>
Some16(d) == [some |-> TRUE, v |-> d]
None16 == [some |-> FALSE, v |-> Data16_ZERO]
\* A subtraction that wraps around modulo 2^16 and never gives None.
Data16_wrapping_sub(d, rhs) == Some16(Data16_from((Data16_value(d) - rhs) % 65536))
\* Data16::checked_add / checked_sub (None when the u16 overflows)
Data16_checked_add(d, rhs) ==
    IF Data16_value(d) + rhs > 65535 THEN None16
    ELSE Some16(Data16_from(Data16_value(d) + rhs))
Data16_checked_sub(d, rhs) ==
    IF Data16_value(d) - rhs < 0 THEN None16
    ELSE Some16(Data16_from(Data16_value(d) - rhs))

\* An Instruction value: the variant name, up to two enum operands (x, y) and
\* one numeric operand (n: Data8, Port, Address, the value of a Data16, or
\* the discriminant of a RestartNumber).
Ins(op, x, y, n) == [op |-> op, x |-> x, y |-> y, n |-> n]
Ins0(op) == Ins(op, "-", "-", 0)
\* Option<Instruction>::None
NoInstr == Ins0("None")

-----------------------------------------------------------------------------
(* coding/reader.rs : the byte reader used by the decoder.                 *)

\* Reader::new
Reader_new(slice) == [original |-> slice, buffer |-> slice]
\* Reader::peek_n (Option<&[u8]>: `some` is FALSE when fewer than n bytes remain)
Reader_peek_n(stream, n) ==
    IF Len(stream.buffer) < n THEN [some |-> FALSE, v |-> <<>>]
    ELSE [some |-> TRUE, v |-> SubSeq(stream.buffer, 1, n)]
\* Reader::skip_n : read_n with the result dropped
Reader_skip_n(stream, n) ==
    IF Len(stream.buffer) < n THEN stream
    ELSE [stream EXCEPT !.buffer = SubSeq(stream.buffer, n + 1, Len(stream.buffer))]
\* Reader::read_amount_bytes
Reader_read_amount_bytes(stream) == Len(stream.original) - Len(stream.buffer)

-----------------------------------------------------------------------------
(* coding/decode.rs : one parser per opcode family.                        *)

\* is_eq_masked
is_eq_masked(byte, expected, mask) == BitAnd(byte, mask) = BitAnd(expected, mask)
\* extract_bits(byte, start..end)
extract_bits(byte, start, end) == BitAnd(Shr(byte, start), (2 ^ (end - start)) - 1)

\* The parse_* functions of decode.rs are the rows of DecodeOrder below. Each
\* row gives the function (fn), the instruction built, LEN (the bytes peeked
\* and skipped), the expected opcode and its mask, and the operand field read
\* from the opcode:
\*   "rp" / "rps" / "ddd" / "sss" / "ddd_sss" / "n"  try_into().expect(..)
\*   "rpi" / "cc" / "rps_ok"                          try_into().ok()?

\* The common body of the parse_* functions: peek LEN bytes (None when they
\* are not there), compare the opcode under the mask, read the operand field
\* and the trailing bytes, skip LEN bytes.
parse(stream, p) ==
    LET peeked == Reader_peek_n(stream, p.len)
        bytes  == peeked.v
        opcode == bytes[1]
        x == CASE p.field = "rp"  -> RegisterPair_try_from(extract_bits(opcode, 4, 6))
               [] p.field = "rpi" -> RegisterPairIndirect_try_from(extract_bits(opcode, 4, 6))
               [] p.field \in {"rps", "rps_ok"}
                                  -> RegisterPairOrStatus_try_from(extract_bits(opcode, 4, 6))
               [] p.field \in {"ddd", "ddd_sss"}
                                  -> Register_try_from(extract_bits(opcode, 3, 6))
               [] p.field = "sss" -> Register_try_from(extract_bits(opcode, 0, 3))
               [] p.field = "cc"  -> Condition_try_from(extract_bits(opcode, 3, 6))
               [] OTHER -> "-"
        y == IF p.field = "ddd_sss"
             THEN Register_try_from(extract_bits(opcode, 0, 3)) ELSE "-"
        n == CASE p.field = "n" -> extract_bits(opcode, 3, 6)
               [] p.len = 2 -> bytes[2]
               [] p.len = 3 -> Data16_value(Data16_new(bytes[2], bytes[3]))
               [] OTHER -> 0
    IN  IF ~peeked.some THEN [ins |-> NoInstr, stream |-> stream]
        ELSE IF ~is_eq_masked(opcode, p.expected, p.mask)
        THEN [ins |-> NoInstr, stream |-> stream]
        ELSE IF x = "Err" THEN [ins |-> NoInstr, stream |-> stream]
        ELSE [ins |-> Ins(p.op, x, y, n), stream |-> Reader_skip_n(stream, p.len)]

\* The parsers in the order in which coding::decode tries them.
DecodeOrder ==
    << [fn |-> "parse_noop", op |-> "Nop",  len |-> 1, expected |-> 0,   mask |-> 255, field |-> "none"],
       [fn |-> "parse_lxi",  op |-> "Lxi",  len |-> 3, expected |-> 1,   mask |-> 207, field |-> "rp"],
       [fn |-> "parse_stax", op |-> "Stax", len |-> 1, expected |-> 2,   mask |-> 207, field |-> "rpi"],
       [fn |-> "parse_inx",  op |-> "Inx",  len |-> 1, expected |-> 3,   mask |-> 207, field |-> "rp"],
       [fn |-> "parse_inr",  op |-> "Inr",  len |-> 1, expected |-> 4,   mask |-> 199, field |-> "ddd"],
       [fn |-> "parse_dcr",  op |-> "Dcr",  len |-> 1, expected |-> 5,   mask |-> 199, field |-> "ddd"],
       [fn |-> "parse_mvi",  op |-> "Mvi",  len |-> 2, expected |-> 6,   mask |-> 199, field |-> "ddd"],
       [fn |-> "parse_dad",  op |-> "Dad",  len |-> 1, expected |-> 9,   mask |-> 207, field |-> "rp"],
       [fn |-> "parse_ldax", op |-> "Ldax", len |-> 1, expected |-> 10,  mask |-> 207, field |-> "rpi"],
       [fn |-> "parse_dcx",  op |-> "Dcx",  len |-> 1, expected |-> 11,  mask |-> 207, field |-> "rp"],
       [fn |-> "parse_rlc",  op |-> "Rlc",  len |-> 1, expected |-> 7,   mask |-> 255, field |-> "none"],
       [fn |-> "parse_rrc",  op |-> "Rrc",  len |-> 1, expected |-> 15,  mask |-> 255, field |-> "none"],
       [fn |-> "parse_ral",  op |-> "Ral",  len |-> 1, expected |-> 23,  mask |-> 255, field |-> "none"],
       [fn |-> "parse_rar",  op |-> "Rar",  len |-> 1, expected |-> 31,  mask |-> 255, field |-> "none"],
       [fn |-> "parse_shld", op |-> "Shld", len |-> 3, expected |-> 34,  mask |-> 255, field |-> "none"],
       [fn |-> "parse_daa",  op |-> "Daa",  len |-> 1, expected |-> 39,  mask |-> 255, field |-> "none"],
       [fn |-> "parse_lhld", op |-> "Lhld", len |-> 3, expected |-> 42,  mask |-> 255, field |-> "none"],
       [fn |-> "parse_cma",  op |-> "Cma",  len |-> 1, expected |-> 42,  mask |-> 255, field |-> "none"],
       [fn |-> "parse_sta",  op |-> "Sta",  len |-> 3, expected |-> 50,  mask |-> 255, field |-> "none"],
       [fn |-> "parse_stc",  op |-> "Stc",  len |-> 1, expected |-> 55,  mask |-> 255, field |-> "none"],
       [fn |-> "parse_lda",  op |-> "Lda",  len |-> 3, expected |-> 58,  mask |-> 255, field |-> "none"],
       [fn |-> "parse_cmc",  op |-> "Cmc",  len |-> 1, expected |-> 63,  mask |-> 255, field |-> "none"],
       [fn |-> "parse_mov",  op |-> "Mov",  len |-> 1, expected |-> 64,  mask |-> 192, field |-> "ddd_sss"],
       [fn |-> "parse_hlt",  op |-> "Hlt",  len |-> 1, expected |-> 118, mask |-> 255, field |-> "none"],
       [fn |-> "parse_add",  op |-> "Add",  len |-> 1, expected |-> 128, mask |-> 248, field |-> "sss"],
       [fn |-> "parse_adc",  op |-> "Adc",  len |-> 1, expected |-> 144, mask |-> 248, field |-> "sss"],
       [fn |-> "parse_sub",  op |-> "Sub",  len |-> 1, expected |-> 144, mask |-> 248, field |-> "sss"],
       [fn |-> "parse_sbb",  op |-> "Sbb",  len |-> 1, expected |-> 152, mask |-> 248, field |-> "sss"],
       [fn |-> "parse_ana",  op |-> "Ana",  len |-> 1, expected |-> 160, mask |-> 248, field |-> "sss"],
       [fn |-> "parse_xra",  op |-> "Xra",  len |-> 1, expected |-> 168, mask |-> 248, field |-> "sss"],
       [fn |-> "parse_ora",  op |-> "Ora",  len |-> 1, expected |-> 176, mask |-> 248, field |-> "sss"],
       [fn |-> "parse_cmp",  op |-> "Cmp",  len |-> 1, expected |-> 184, mask |-> 248, field |-> "sss"],
       [fn |-> "parse_rcc",  op |-> "Rcc",  len |-> 1, expected |-> 192, mask |-> 199, field |-> "cc"],
       [fn |-> "parse_pop",  op |-> "Pop",  len |-> 1, expected |-> 193, mask |-> 207, field |-> "rps"],
       [fn |-> "parse_jcc",  op |-> "Jcc",  len |-> 3, expected |-> 194, mask |-> 199, field |-> "cc"],
       [fn |-> "parse_jmp",  op |-> "Jmp",  len |-> 3, expected |-> 195, mask |-> 255, field |-> "none"],
       [fn |-> "parse_ccc",  op |-> "Ccc",  len |-> 3, expected |-> 196, mask |-> 199, field |-> "cc"],
       [fn |-> "parse_push", op |-> "Push", len |-> 1, expected |-> 197, mask |-> 207, field |-> "rps_ok"],
       [fn |-> "parse_rst",  op |-> "Rst",  len |-> 1, expected |-> 199, mask |-> 199, field |-> "n"],
       [fn |-> "parse_ret",  op |-> "Ret",  len |-> 1, expected |-> 201, mask |-> 255, field |-> "none"],
       [fn |-> "parse_call", op |-> "Call", len |-> 3, expected |-> 205, mask |-> 255, field |-> "none"],
       [fn |-> "parse_out",  op |-> "Out",  len |-> 2, expected |-> 211, mask |-> 255, field |-> "none"],
       [fn |-> "parse_in",   op |-> "In",   len |-> 2, expected |-> 219, mask |-> 255, field |-> "none"] >>

\* None.or_else(p1).or_else(p2)... : the first parser of `order`, from index
\* k on, that returns Some.
RECURSIVE or_else(_, _, _)
or_else(stream, order, k) ==
    IF k > Len(order) THEN [ins |-> NoInstr, stream |-> stream]
    ELSE LET r == parse(stream, order[k])
         IN  IF r.ins # NoInstr THEN r ELSE or_else(stream, order, k + 1)

\* coding::decode : the instruction (NoInstr for None) and the advanced reader.
decode(stream) == or_else(stream, DecodeOrder, 1)

-----------------------------------------------------------------------------
(* coding/encode.rs and coding::encode.                                    *)

\* bits_write_offset : value | (insert << index)
bits_write_offset(value, insert, index) == BitOr(value, Shl8(insert, index))

write_opcode(opcode) == <<opcode>>
write_opcode_rp(opcode, rp) ==
    write_opcode(bits_write_offset(opcode, RegisterPair_repr(rp), 4))
write_opcode_ddd(opcode, ddd) ==
    write_opcode(bits_write_offset(opcode, Register_repr(ddd), 3))
write_opcode_sss(opcode, sss) ==
    write_opcode(bits_write_offset(opcode, Register_repr(sss), 0))
write_opcode_ddd_sss(opcode, ddd, sss) ==
    write_opcode(bits_write_offset(bits_write_offset(opcode, Register_repr(ddd), 3),
                                   Register_repr(sss), 0))
write_opcode_cc(opcode, cc) ==
    write_opcode(bits_write_offset(opcode, Condition_repr(cc), 3))
write_opcode_restart_number(opcode, n) ==
    write_opcode(bits_write_offset(opcode, n, 3))
write_data_8(data) == <<data>>
\* write_data_16 / write_addr : low byte first, then high byte
write_data_16(data) == <<data.low, data.high>>
write_addr(addr) == write_data_16(Data16_from(addr))

\* The encode_* functions that coding/encode.rs defines.
encode_rs(i) ==
    CASE i.op = "Nop"  -> write_opcode(0)
      [] i.op = "Lxi"  -> write_opcode_rp(0, i.x) \o write_data_16(Data16_from(i.n))
      [] i.op = "Stax" -> write_opcode_rp(2, i.x)
      [] i.op = "Inx"  -> write_opcode_rp(3, i.x)
      [] i.op = "Inr"  -> write_opcode_ddd(4, i.x)
      [] i.op = "Dcr"  -> write_opcode_ddd(5, i.x)
      [] i.op = "Mvi"  -> write_opcode_ddd(6, i.x) \o write_data_8(i.n)
      [] i.op = "Dad"  -> write_opcode_rp(9, i.x)
      [] i.op = "Ldax" -> write_opcode_rp(10, i.x)
      [] i.op = "Dcx"  -> write_opcode_rp(11, i.x)
      [] i.op = "Rlc"  -> write_opcode(7)
      [] i.op = "Rrc"  -> write_opcode(15)
      [] i.op = "Ral"  -> write_opcode(23)
      [] i.op = "Rar"  -> write_opcode(31)
      [] i.op = "Shld" -> write_opcode(34) \o write_addr(i.n)
      [] i.op = "Daa"  -> write_opcode(39)
      [] i.op = "Lhld" -> write_opcode(42) \o write_addr(i.n)
      [] i.op = "Cma"  -> write_opcode(42)
      [] i.op = "Sta"  -> write_opcode(50) \o write_addr(i.n)
      [] i.op = "Stc"  -> write_opcode(55)
      [] i.op = "Lda"  -> write_opcode(58) \o write_addr(i.n)
      [] i.op = "Cmc"  -> write_opcode(63)
      [] i.op = "Mov"  -> write_opcode_ddd_sss(64, i.x, i.y)
      [] i.op = "Hlt"  -> write_opcode(118)
      [] i.op = "Add"  -> write_opcode_sss(128, i.x)
      [] i.op = "Adc"  -> write_opcode_sss(144, i.x)
      [] i.op = "Sub"  -> write_opcode_sss(144, i.x)
      [] i.op = "Sbb"  -> write_opcode_sss(152, i.x)
      [] i.op = "Ana"  -> write_opcode_sss(160, i.x)
      [] i.op = "Xra"  -> write_opcode_sss(168, i.x)
      [] i.op = "Ora"  -> write_opcode_sss(176, i.x)
      [] i.op = "Cmp"  -> write_opcode_sss(184, i.x)
      [] i.op = "Rcc"  -> write_opcode_cc(192, i.x)
      [] i.op = "Pop"  -> write_opcode_rp(193, i.x)
      [] i.op = "Jcc"  -> write_opcode_cc(194, i.x) \o write_addr(i.n)
      [] i.op = "Jmp"  -> write_opcode(195) \o write_addr(i.n)
      [] i.op = "Ccc"  -> write_opcode_cc(196, i.x) \o write_addr(i.n)
      [] i.op = "Push" -> write_opcode_rp(197, i.x)
      [] i.op = "Rst"  -> write_opcode_restart_number(199, i.n)
      [] i.op = "Ret"  -> write_opcode(201)
      [] i.op = "Call" -> write_opcode(205) \o write_addr(i.n)
      [] i.op = "Out"  -> write_opcode(211) \o write_data_8(i.n)
      [] i.op = "In"   -> write_opcode(219) \o write_data_8(i.n)

\* The variants coding::encode dispatches to functions that encode.rs does
\* not define (the immediate group and six fixed opcodes).
SkippedOps == {"Adi", "Aci", "Sui", "Sbi", "Ani", "Xri", "Ori", "Cpi",
               "Xchg", "Xthl", "Sphl", "Pchl", "Ei", "Di"}

\* Their documented 8080 encodings.
encode_skipped(i) ==
    CASE i.op = "Adi"  -> write_opcode(198) \o write_data_8(i.n)
      [] i.op = "Aci"  -> write_opcode(206) \o write_data_8(i.n)
      [] i.op = "Sui"  -> write_opcode(214) \o write_data_8(i.n)
      [] i.op = "Sbi"  -> write_opcode(222) \o write_data_8(i.n)
      [] i.op = "Ani"  -> write_opcode(230) \o write_data_8(i.n)
      [] i.op = "Xri"  -> write_opcode(238) \o write_data_8(i.n)
      [] i.op = "Ori"  -> write_opcode(246) \o write_data_8(i.n)
      [] i.op = "Cpi"  -> write_opcode(254) \o write_data_8(i.n)
      [] i.op = "Xchg" -> write_opcode(235)
      [] i.op = "Xthl" -> write_opcode(227)
      [] i.op = "Sphl" -> write_opcode(249)
      [] i.op = "Pchl" -> write_opcode(233)
      [] i.op = "Ei"   -> write_opcode(251)
      [] i.op = "Di"   -> write_opcode(243)

\* coding::encode : the bytes written to the buffer.
encode(i) == IF i.op \in SkippedOps THEN encode_skipped(i) ELSE encode_rs(i)

-----------------------------------------------------------------------------
(* machine.rs : Memory, ConditionRegisters, RegisterMap.                   *)

\* static MEMORY_SIZE_BYTES: usize = 2 << 16
MEMORY_SIZE_BYTES == 131072

\* Memory::new : every cell is 0 (the image keeps only the non-zero cells)
Memory_new == <<>>

\* self.0[index]
Memory_cell(mem, index) == IF index \in DOMAIN mem THEN mem[index] ELSE 0
\* self.0[index] = value
Memory_store(mem, index, value) ==
    IF value = 0 THEN [x \in (DOMAIN mem) \ {index} |-> mem[x]]
    ELSE [x \in (DOMAIN mem) \cup {index} |-> IF x = index THEN value ELSE mem[x]]

\* Memory::read_8
Memory_read_8(mem, address) == Memory_cell(mem, address)
\* Memory::read_16 : None when the high byte lies outside the array
Memory_read_16(mem, address) ==
    IF address + 1 >= MEMORY_SIZE_BYTES THEN None16
    ELSE Some16(Data16_new(Memory_cell(mem, address), Memory_cell(mem, address + 1)))
\* Memory::write_8
Memory_write_8(mem, address, value) == Memory_store(mem, address, value)
\* Memory::write_16 : the low byte is stored before the high byte is looked up
Memory_write_16(mem, address, value) ==
    LET low == Memory_store(mem, address, value.low)
    IN  IF address + 1 >= MEMORY_SIZE_BYTES THEN [some |-> FALSE, mem |-> low]
        ELSE [some |-> TRUE, mem |-> Memory_store(low, address + 1, value.high)]

RECURSIVE copy_from_slice(_, _, _, _)
copy_from_slice(mem, address, value, k) ==
    IF k > Len(value) THEN mem
    ELSE copy_from_slice(Memory_store(mem, address + k - 1, value[k]), address, value, k + 1)
\* Memory::write_slice : nothing is written when the range leaves the array
Memory_write_slice(mem, address, value) ==
    IF address + Len(value) > MEMORY_SIZE_BYTES THEN [some |-> FALSE, mem |-> mem]
    ELSE [some |-> TRUE, mem |-> copy_from_slice(mem, address, value, 1)]

\* ConditionRegisters::new
ConditionRegisters_new ==
    [Carry |-> FALSE, AuxiliaryCarry |-> FALSE, Zero |-> FALSE,
     Sign |-> FALSE, Parity |-> FALSE]

\* RegisterMap::new
RegisterMap_new ==
    [a |-> 0, b |-> 0, c |-> 0, d |-> 0, e |-> 0, h |-> 0, l |-> 0, sp |-> Data16_ZERO]

\* RegisterMap::get_16
get_16(regs, register) ==
    CASE register = "Bc" -> Data16_new(regs.c, regs.b)
      [] register = "De" -> Data16_new(regs.e, regs.d)
      [] register = "Hl" -> Data16_new(regs.l, regs.h)
      [] register = "Sp" -> regs.sp

\* RegisterMap::set_16
set_16(regs, register, value) ==
    CASE register = "Bc" -> [regs EXCEPT !.c = value.low, !.b = value.high]
      [] register = "De" -> [regs EXCEPT !.e = value.low, !.d = value.high]
      [] register = "Hl" -> [regs EXCEPT !.l = value.low, !.h = value.high]
      [] register = "Sp" -> [regs EXCEPT !.sp = value]

\* A register read in which M is the byte at address 0, whatever HL holds.
get_8_m_at_zero(regs, register, mem) ==
    CASE register = "B" -> regs.b
      [] register = "C" -> regs.c
      [] register = "D" -> regs.d
      [] register = "E" -> regs.e
      [] register = "H" -> regs.h
      [] register = "L" -> regs.l
      [] register = "M" -> Memory_read_8(mem, 0)
      [] register = "A" -> regs.a

\* RegisterMap::get_8 (M reads memory at the current HL)
get_8(regs, register, mem) ==
    CASE register = "B" -> regs.b
      [] register = "C" -> regs.c
      [] register = "D" -> regs.d
      [] register = "E" -> regs.e
      [] register = "H" -> regs.h
      [] register = "L" -> regs.l
      [] register = "M" -> Memory_read_8(mem, Data16_value(get_16(regs, "Hl")))
      [] register = "A" -> regs.a

\* RegisterMap::set_8 on the machine's registers and memory (M writes memory
\* at the current HL)
set_8(m, register, value) ==
    CASE register = "B" -> [m EXCEPT !.registers.b = value]
      [] register = "C" -> [m EXCEPT !.registers.c = value]
      [] register = "D" -> [m EXCEPT !.registers.d = value]
      [] register = "E" -> [m EXCEPT !.registers.e = value]
      [] register = "H" -> [m EXCEPT !.registers.h = value]
      [] register = "L" -> [m EXCEPT !.registers.l = value]
      [] register = "M" ->
           [m EXCEPT !.memory = Memory_write_8(m.memory,
                                   Data16_value(get_16(m.registers, "Hl")), value)]
      [] register = "A" -> [m EXCEPT !.registers.a = value]

-----------------------------------------------------------------------------
(* machine.rs : Machine.                                                   *)

\* MachineState
Running == [kind |-> "Running", reason |-> "-"]
Halted(reason) == [kind |-> "Halted", reason |-> reason]
HaltReasons == {"HaltInstruction", "InvalidInstruction", "StackOverflow",
                "StackUnderflow", "MemoryOverflow"}

\* Machine::new (with the host's standard input beside it)
Machine_new(input) ==
    [state |-> Running, memory |-> Memory_new, registers |-> RegisterMap_new,
     conditions |-> ConditionRegisters_new, pc |-> Data16_ZERO, stdout |-> <<>>,
     stdin |-> input]

is_even(value) == value % 2 = 0

\* Machine::register_8 / register_16
register_8(m, register) == get_8(m.registers, register, m.memory)
register_16(m, register) == get_16(m.registers, register)

\* A push that stores the high byte below the low byte.
stack_push_high_first(m, data) ==
    LET new_sp == Data16_checked_sub(register_16(m, "Sp"), 2)
        w == Memory_write_16(m.memory, Data16_value(new_sp.v),
                             Data16_new(data.high, data.low))
    IN  IF ~new_sp.some THEN [some |-> FALSE, m |-> m]
        ELSE IF ~w.some THEN [some |-> FALSE, m |-> [m EXCEPT !.memory = w.mem]]
        ELSE [some |-> TRUE,
              m |-> [m EXCEPT !.memory = w.mem,
                              !.registers = set_16(m.registers, "Sp", new_sp.v)]]

\* Machine::stack_push : Option<()> and the machine afterwards
stack_push(m, data) ==
    LET new_sp == Data16_checked_sub(register_16(m, "Sp"), 2)
        w == Memory_write_16(m.memory, Data16_value(new_sp.v), data)
    IN  IF ~new_sp.some THEN [some |-> FALSE, m |-> m]
        ELSE IF ~w.some THEN [some |-> FALSE, m |-> [m EXCEPT !.memory = w.mem]]
        ELSE [some |-> TRUE,
              m |-> [m EXCEPT !.memory = w.mem,
                              !.registers = set_16(m.registers, "Sp", new_sp.v)]]

\* Machine::stack_pop : Option<Data16> and the machine afterwards
stack_pop(m) ==
    LET value == Memory_read_16(m.memory, Data16_value(register_16(m, "Sp")))
        next_sp == Data16_checked_add(register_16(m, "Sp"), 2)
    IN  IF ~value.some THEN [some |-> FALSE, v |-> Data16_ZERO, m |-> m]
        ELSE IF ~next_sp.some THEN [some |-> FALSE, v |-> Data16_ZERO, m |-> m]
        ELSE [some |-> TRUE, v |-> value.v,
              m |-> [m EXCEPT !.registers = set_16(m.registers, "Sp", next_sp.v)]]

\* A status word that carries the flags but not the accumulator.
get_status_word_without_a(m) ==
    LET cy_flag == BoolToInt(m.conditions.Carry)
        p_flag  == BoolToInt(m.conditions.Parity)
        ac_flag == BoolToInt(m.conditions.AuxiliaryCarry)
        z_flag  == BoolToInt(m.conditions.Zero)
        s_flag  == BoolToInt(m.conditions.Sign)
        low == BitOr(BitOr(BitOr(BitOr(BitOr(cy_flag, Shl8(1, 1)), Shl8(p_flag, 2)),
                                 Shl8(ac_flag, 4)), Shl8(z_flag, 6)), Shl8(s_flag, 7))
    IN  Data16_new(low, 0)

\* Machine::get_status_word
get_status_word(m) ==
    LET cy_flag == BoolToInt(m.conditions.Carry)
        p_flag  == BoolToInt(m.conditions.Parity)
        ac_flag == BoolToInt(m.conditions.AuxiliaryCarry)
        z_flag  == BoolToInt(m.conditions.Zero)
        s_flag  == BoolToInt(m.conditions.Sign)
        low == BitOr(BitOr(BitOr(BitOr(BitOr(cy_flag, Shl8(1, 1)), Shl8(p_flag, 2)),
                                 Shl8(ac_flag, 4)), Shl8(z_flag, 6)), Shl8(s_flag, 7))
        high == get_8(m.registers, "A", m.memory)
    IN  Data16_new(low, high)

\* A status word read with the Parity flag taken from bit 3.
set_status_word_parity_bit_3(m, data) ==
    LET cy_flag == BitAnd(data.low, 1)
        p_flag  == BitAnd(Shr(data.low, 3), 1)
        ac_flag == BitAnd(Shr(data.low, 4), 1)
        z_flag  == BitAnd(Shr(data.low, 6), 1)
        s_flag  == BitAnd(Shr(data.low, 7), 1)
    IN  set_8([m EXCEPT !.conditions =
                   [Carry |-> cy_flag = 1, Parity |-> p_flag = 1,
                    AuxiliaryCarry |-> ac_flag = 1, Zero |-> z_flag = 1,
                    Sign |-> s_flag = 1]],
              "A", data.high)

\* Machine::set_status_word
set_status_word(m, data) ==
    LET cy_flag == BitAnd(data.low, 1)
        p_flag  == BitAnd(Shr(data.low, 2), 1)
        ac_flag == BitAnd(Shr(data.low, 4), 1)
        z_flag  == BitAnd(Shr(data.low, 6), 1)
        s_flag  == BitAnd(Shr(data.low, 7), 1)
    IN  set_8([m EXCEPT !.conditions =
                   [Carry |-> cy_flag = 1, Parity |-> p_flag = 1,
                    AuxiliaryCarry |-> ac_flag = 1, Zero |-> z_flag = 1,
                    Sign |-> s_flag = 1]],
              "A", data.high)

\* calc_ac_flag_add
calc_ac_flag_add(a, b, cy_flag) ==
    LET a4 == BitAnd(a, 15)
        b4 == BitAnd(b, 15)
    IN  BitAnd(a4 + b4 + BoolToInt(cy_flag), 16) = 1

-----------------------------------------------------------------------------
(* machine.rs : Machine::execute, one definition per match arm. Each gives *)
(* the machine afterwards (m) and the ExecutionResult (r).                 *)

Done(m, res) == [m |-> m, r |-> res]

\* The five self.conditions.set calls that end the arithmetic arms.
set_conditions(m, z_flag, s_flag, p_flag, cy_flag, ac_flag) ==
    [m EXCEPT !.conditions.Zero = z_flag, !.conditions.Sign = s_flag,
              !.conditions.Parity = p_flag, !.conditions.Carry = cy_flag,
              !.conditions.AuxiliaryCarry = ac_flag]

\* The body shared by Add, Adi, Adc and Aci: a + term + carry-in in u16,
\* flags from the sum, the low byte stored in A.
add_body(m, term, cy_in) ==
    LET a == get_8(m.registers, "A", m.memory)
        result == a + term + BoolToInt(cy_in)
        ac_flag == calc_ac_flag_add(a, term, cy_in)
        cy_flag == BitAnd(Shr(result, 8), 1) = 1
        result8 == result % 256
        z_flag == result8 = 0
        s_flag == BitAnd(result8, 128) = 1
        p_flag == is_even(count_ones(result8))
    IN  Done(set_conditions(set_8(m, "A", result8),
                            z_flag, s_flag, p_flag, cy_flag, ac_flag), "Running")

\* A subtraction that writes the difference to A whatever `store` says.
sub_body_storing(m, term, store) ==
    LET a == get_8(m.registers, "A", m.memory)
        term_complement == (BitNot8(term) + 1) % 256
        result == a + term_complement
        ac_flag == calc_ac_flag_add(a, term_complement, FALSE)
        cy_flag == BitAnd(Shr(result, 8), 1) = 1
        result8 == result % 256
        z_flag == result8 = 0
        s_flag == BitAnd(result8, 128) = 1
        p_flag == is_even(count_ones(result8))
    IN  Done(set_conditions(set_8(m, "A", result8),
                            z_flag, s_flag, p_flag, cy_flag, ac_flag), "Running")

\* The body shared by Sub, Sui, Cmp and Cpi: a plus the two's complement of
\* the term; `store` is FALSE for the compares, which do not write A.
sub_body(m, term, store) ==
    LET a == get_8(m.registers, "A", m.memory)
        term_complement == (BitNot8(term) + 1) % 256
        result == a + term_complement
        ac_flag == calc_ac_flag_add(a, term_complement, FALSE)
        cy_flag == BitAnd(Shr(result, 8), 1) = 1
        result8 == result % 256
        z_flag == result8 = 0
        s_flag == BitAnd(result8, 128) = 1
        p_flag == is_even(count_ones(result8))
    IN  Done(set_conditions(IF store THEN set_8(m, "A", result8) ELSE m,
                            z_flag, s_flag, p_flag, cy_flag, ac_flag), "Running")

\* The body shared by Sbb and Sbi: the carry is first added to the term
\* (overflowing_add), then as sub_body.
sbb_body(m, term0) ==
    LET a == get_8(m.registers, "A", m.memory)
        cy_in == BoolToInt(m.conditions.Carry)
        term == (term0 + cy_in) % 256
        borrow == term0 + cy_in > 255
        term_complement == (BitNot8(term) + 1) % 256
        result == a + term_complement
        ac_flag == calc_ac_flag_add(a, term_complement, FALSE)
        cy_flag == (BitAnd(Shr(result, 8), 1) = 1) \/ borrow
        result8 == result % 256
        z_flag == result8 = 0
        s_flag == BitAnd(result8, 128) = 1
        p_flag == is_even(count_ones(result8))
    IN  Done(set_conditions(set_8(m, "A", result8),
                            z_flag, s_flag, p_flag, cy_flag, ac_flag), "Running")

\* The body shared by Ana, Ani, Xra, Xri, Ora and Ori once the result is
\* computed: A, Zero, Sign, Parity are written and Carry is cleared.
logic_body(m, result) ==
    LET z_flag == result = 0
        s_flag == BitAnd(result, 128) = 1
        p_flag == is_even(count_ones(result))
    IN  Done([set_8(m, "A", result) EXCEPT
                  !.conditions.Zero = z_flag, !.conditions.Sign = s_flag,
                  !.conditions.Parity = p_flag, !.conditions.Carry = FALSE],
             "Running")

\* The match on Condition with the two Sign conditions exchanged.
condition_holds_sign_exchanged(m, condition) ==
    CASE condition = "Carry"      -> m.conditions.Carry
      [] condition = "NoCarry"    -> ~m.conditions.Carry
      [] condition = "Zero"       -> m.conditions.Zero
      [] condition = "NoZero"     -> ~m.conditions.Zero
      [] condition = "Minus"      -> ~m.conditions.Sign
      [] condition = "Positive"   -> m.conditions.Sign
      [] condition = "ParityEven" -> m.conditions.Parity
      [] condition = "ParityOdd"  -> ~m.conditions.Parity

\* The match on Condition shared by Jcc, Ccc and Rcc.
condition_holds(m, condition) ==
    CASE condition = "Carry"      -> m.conditions.Carry
      [] condition = "NoCarry"    -> ~m.conditions.Carry
      [] condition = "Zero"       -> m.conditions.Zero
      [] condition = "NoZero"     -> ~m.conditions.Zero
      [] condition = "Minus"      -> m.conditions.Sign
      [] condition = "Positive"   -> ~m.conditions.Sign
      [] condition = "ParityEven" -> m.conditions.Parity
      [] condition = "ParityOdd"  -> ~m.conditions.Parity

execute_Lhld(m, i) ==
    LET mem == Memory_read_16(m.memory, i.n)
    IN  IF ~mem.some THEN Done(m, "MemoryOverflow")
        ELSE Done([m EXCEPT !.registers = set_16(m.registers, "Hl", mem.v)], "Running")

execute_Shld(m, i) ==
    LET hl == get_16(m.registers, "Hl")
        res == Memory_write_16(m.memory, i.n, hl)
    IN  IF ~res.some THEN Done([m EXCEPT !.memory = res.mem], "MemoryOverflow")
        ELSE Done([m EXCEPT !.memory = res.mem], "Running")

execute_Ldax(m, i) ==
    LET address == get_16(m.registers, i.x)
    IN  Done(set_8(m, "A", Memory_read_8(m.memory, Data16_value(address))), "Running")

execute_Stax(m, i) ==
    LET address == get_16(m.registers, i.x)
        a == get_8(m.registers, "A", m.memory)
    IN  Done([m EXCEPT !.memory = Memory_write_8(m.memory, Data16_value(address), a)],
             "Running")

execute_Xchg(m, i) ==
    LET hl == get_16(m.registers, "Hl")
        de == get_16(m.registers, "De")
    IN  Done([m EXCEPT !.registers = set_16(set_16(m.registers, "De", hl), "Hl", de)],
             "Running")

execute_Inr(m, i) ==
    LET value == get_8(m.registers, i.x, m.memory)
        result == (value + 1) % 256
        ac_flag == calc_ac_flag_add(value, 1, FALSE)
        z_flag == result = 0
        s_flag == BitAnd(result, 128) = 1
        p_flag == is_even(count_ones(result))
    IN  Done([set_8(m, i.x, result) EXCEPT
                  !.conditions.Zero = z_flag, !.conditions.Sign = s_flag,
                  !.conditions.Parity = p_flag, !.conditions.AuxiliaryCarry = ac_flag],
             "Running")

execute_Dcr(m, i) ==
    LET value == get_8(m.registers, i.x, m.memory)
        result == (value + 255) % 256
        ac_flag == calc_ac_flag_add(value, 255, FALSE)
        z_flag == result = 0
        s_flag == BitAnd(result, 128) = 1
        p_flag == is_even(count_ones(result))
    IN  Done([set_8(m, i.x, result) EXCEPT
                  !.conditions.Zero = z_flag, !.conditions.Sign = s_flag,
                  !.conditions.Parity = p_flag, !.conditions.AuxiliaryCarry = ac_flag],
             "Running")

\* An increment of the low byte alone, with no carry into the high byte.
execute_Inx_low_byte(m, i) ==
    LET value == get_16(m.registers, i.x)
        result == Data16_new((value.low + 1) % 256, value.high)
    IN  Done([m EXCEPT !.registers = set_16(m.registers, i.x, result)], "Running")

execute_Inx(m, i) ==
    LET value == Data16_value(get_16(m.registers, i.x))
        result == (value + 1) % 65536
    IN  Done([m EXCEPT !.registers = set_16(m.registers, i.x, Data16_from(result))],
             "Running")

execute_Dcx(m, i) ==
    LET value == Data16_value(get_16(m.registers, i.x))
        result == (value + 65535) % 65536
    IN  Done([m EXCEPT !.registers = set_16(m.registers, i.x, Data16_from(result))],
             "Running")

execute_Dad(m, i) ==
    LET hl == Data16_value(get_16(m.registers, "Hl"))
        term == Data16_value(get_16(m.registers, i.x))
        result == hl + term
        cy_flag == BitAnd(Shr(result, 16), 1) = 1
    IN  Done([m EXCEPT !.registers = set_16(m.registers, "Hl",
                                            Data16_from(result % 65536)),
                       !.conditions.Carry = cy_flag],
             "Running")

execute_Daa(m, i) ==
    LET ac_in == m.conditions.AuxiliaryCarry
        cy_in == m.conditions.Carry
        a0 == get_8(m.registers, "A", m.memory)
        lsb == BitAnd(a0, 15)
        step1 == lsb > 9 \/ ac_in
        ac_flag == IF step1 THEN lsb > 9 ELSE FALSE
        wrapped1 == step1 /\ a0 > 255 - 6
        a1 == IF step1 THEN (a0 + 6) % 256 ELSE a0
        msb == BitAnd(Shr(a1, 4), 15)
        step2 == msb > 9 \/ cy_in
        wrapped2 == step2 /\ a1 > 255 - 96
        a2 == IF step2 THEN (a1 + 96) % 256 ELSE a1
        z_flag == a2 = 0
        s_flag == BitAnd(a2, 128) = 1
        p_flag == is_even(count_ones(a2))
        cy_flag == wrapped1 \/ wrapped2
    IN  Done(set_conditions(set_8(m, "A", a2),
                            z_flag, s_flag, p_flag, cy_flag, ac_flag), "Running")

execute_Rlc(m, i) ==
    LET cy_flag == BitAnd(Shr(m.registers.a, 7), 1) = 1
    IN  Done([m EXCEPT !.registers.a = Shl8(m.registers.a, 1),
                       !.conditions.Carry = cy_flag], "Running")

execute_Rrc(m, i) ==
    LET cy_flag == BitAnd(m.registers.a, 1) = 1
    IN  Done([m EXCEPT !.registers.a = Shr(m.registers.a, 1),
                       !.conditions.Carry = cy_flag], "Running")

execute_Ral(m, i) ==
    LET cy_flag == m.conditions.Carry
        new_cy_flag == BitAnd(Shr(m.registers.a, 7), 1) = 1
    IN  Done([m EXCEPT !.registers.a = BitAnd(Shl8(m.registers.a, 1), BoolToInt(cy_flag)),
                       !.conditions.Carry = new_cy_flag], "Running")

execute_Rar(m, i) ==
    LET cy_flag == m.conditions.Carry
        new_cy_flag == BitAnd(m.registers.a, 1) = 1
    IN  Done([m EXCEPT !.registers.a = BitAnd(Shr(m.registers.a, 1),
                                              Shl8(BoolToInt(cy_flag), 7)),
                       !.conditions.Carry = new_cy_flag], "Running")

execute_Jcc(m, i) ==
    LET should_jump == condition_holds(m, i.x)
    IN  IF should_jump THEN Done([m EXCEPT !.pc = Data16_from(i.n)], "ControlTransfer")
        ELSE Done(m, "Running")

execute_Call(m, i) ==
    LET pushed == stack_push(m, m.pc)
    IN  IF pushed.some
        THEN Done([pushed.m EXCEPT !.pc = Data16_from(i.n)], "ControlTransfer")
        ELSE Done(pushed.m, "StackOverflow")

execute_Ccc(m, i) ==
    LET should_call == condition_holds(m, i.x)
        pushed == stack_push(m, m.pc)
    IN  IF should_call
        THEN IF pushed.some
             THEN Done([pushed.m EXCEPT !.pc = Data16_from(i.n)], "ControlTransfer")
             ELSE Done(pushed.m, "StackOverflow")
        ELSE Done(m, "Running")

execute_Ret(m, i) ==
    LET popped == stack_pop(m)
    IN  IF popped.some THEN Done([popped.m EXCEPT !.pc = popped.v], "Running")
        ELSE Done(popped.m, "StackUnderflow")

execute_Rcc(m, i) ==
    LET should_return == condition_holds(m, i.x)
        popped == stack_pop(m)
    IN  IF should_return
        THEN IF popped.some THEN Done([popped.m EXCEPT !.pc = popped.v], "Running")
             ELSE Done(popped.m, "StackUnderflow")
        ELSE Done(m, "Running")

execute_Rst(m, i) ==
    LET pushed == stack_push(m, m.pc)
    IN  IF pushed.some
        THEN Done([pushed.m EXCEPT !.pc = Data16_from(i.n * 8)], "ControlTransfer")
        ELSE Done(pushed.m, "StackOverflow")

execute_Push(m, i) ==
    LET data == IF i.x # "StatusWord" THEN register_16(m, i.x)
                ELSE get_status_word(m)
        pushed == stack_push(m, data)
    IN  IF pushed.some THEN Done(pushed.m, "Running")
        ELSE Done(pushed.m, "StackOverflow")

execute_Pop(m, i) ==
    LET popped == stack_pop(m)
    IN  IF popped.some
        THEN IF i.x # "StatusWord"
             THEN Done([popped.m EXCEPT
                            !.registers = set_16(popped.m.registers, i.x, popped.v)],
                       "Running")
             ELSE Done(set_status_word(popped.m, popped.v), "Running")
        ELSE Done(popped.m, "StackOverflow")

execute_Xthl(m, i) ==
    LET hl == get_16(m.registers, "Hl")
        sp == get_16(m.registers, "Sp")
        stack_top == Memory_read_16(m.memory, Data16_value(sp))
        m1 == [m EXCEPT !.registers = set_16(m.registers, "Hl", stack_top.v)]
        w == Memory_write_16(m1.memory, Data16_value(sp), hl)
    IN  IF ~stack_top.some THEN Done(m, "StackOverflow")
        ELSE IF ~w.some THEN Done([m1 EXCEPT !.memory = w.mem], "StackOverflow")
        ELSE Done([m1 EXCEPT !.memory = w.mem], "Running")

\* Port 0 takes the next byte of standard input; at end of input the arm
\* returns Halt before A is written.
execute_In(m, i) ==
    IF i.n = 0
    THEN IF m.stdin = <<>> THEN Done(m, "Halt")
         ELSE Done(set_8([m EXCEPT !.stdin = Tail(m.stdin)], "A", Head(m.stdin)),
                   "Running")
    ELSE Done(set_8(m, "A", 0), "Running")

\* format!("{}", number).as_bytes() : the ASCII decimal digits of number
RECURSIVE DecimalBytes(_)
DecimalBytes(number) ==
    IF number < 10 THEN <<48 + number>>
    ELSE Append(DecimalBytes(number \div 10), 48 + (number % 10))

\* An Out arm in which port 1 appends the byte of A like port 0.
execute_Out_port_1_raw(m, i) ==
    CASE i.n \in {0, 1} -> Done([m EXCEPT !.stdout = Append(m.stdout, register_8(m, "A"))],
                                "Running")
      [] i.n = 2 -> Done([m EXCEPT !.stdout =
                              m.stdout \o DecimalBytes(Data16_value(register_16(m, "Hl")))],
                         "Running")
      [] OTHER   -> Done(m, "Running")

execute_Out(m, i) ==
    CASE i.n = 0 -> Done([m EXCEPT !.stdout = Append(m.stdout, register_8(m, "A"))],
                         "Running")
      [] i.n = 1 -> Done([m EXCEPT !.stdout =
                              m.stdout \o DecimalBytes(register_8(m, "A"))], "Running")
      [] i.n = 2 -> Done([m EXCEPT !.stdout =
                              m.stdout \o DecimalBytes(Data16_value(register_16(m, "Hl")))],
                         "Running")
      [] OTHER   -> Done(m, "Running")

\* Machine::execute : the match on the Instruction variant. The longer arms
\* are the execute_* definitions above.
execute(m, i) ==
    CASE i.op = "Mov"  ->
             Done(set_8(m, i.x, get_8(m.registers, i.y, m.memory)), "Running")
      [] i.op = "Mvi"  -> Done(set_8(m, i.x, i.n), "Running")
      [] i.op = "Lxi"  ->
             Done([m EXCEPT !.registers = set_16(m.registers, i.x, Data16_from(i.n))],
             "Running")
      [] i.op = "Lda"  -> Done(set_8(m, "A", Memory_read_8(m.memory, i.n)), "Running")
      [] i.op = "Sta"  ->
             Done([m EXCEPT !.memory = Memory_write_8(m.memory, i.n, get_8(m.registers,
             "A", m.memory))], "Running")
      [] i.op = "Lhld" -> execute_Lhld(m, i)
      [] i.op = "Shld" -> execute_Shld(m, i)
      [] i.op = "Ldax" -> execute_Ldax(m, i)
      [] i.op = "Stax" -> execute_Stax(m, i)
      [] i.op = "Xchg" -> execute_Xchg(m, i)
      [] i.op = "Add"  -> add_body(m, get_8(m.registers, i.x, m.memory), FALSE)
      [] i.op = "Adi"  -> add_body(m, i.n, FALSE)
      [] i.op = "Adc"  ->
             add_body(m, get_8(m.registers, i.x, m.memory), m.conditions.Carry)
      [] i.op = "Aci"  -> add_body(m, i.n, m.conditions.Carry)
      [] i.op = "Sub"  -> sub_body(m, get_8(m.registers, i.x, m.memory), TRUE)
      [] i.op = "Sui"  -> sub_body(m, i.n, TRUE)
      [] i.op = "Sbb"  -> sbb_body(m, get_8(m.registers, i.x, m.memory))
      [] i.op = "Sbi"  -> sbb_body(m, i.n)
      [] i.op = "Inr"  -> execute_Inr(m, i)
      [] i.op = "Dcr"  -> execute_Dcr(m, i)
      [] i.op = "Inx"  -> execute_Inx(m, i)
      [] i.op = "Dcx"  -> execute_Dcx(m, i)
      [] i.op = "Dad"  -> execute_Dad(m, i)
      [] i.op = "Daa"  -> execute_Daa(m, i)
      [] i.op = "Ana"  ->
             logic_body(m, BitAnd(get_8(m.registers, "A", m.memory), get_8(m.registers,
             i.x, m.memory)))
      [] i.op = "Ani"  -> logic_body(m, BitAnd(get_8(m.registers, "A", m.memory), i.n))
      [] i.op = "Xra"  ->
             logic_body(m, BitXor(get_8(m.registers, "A", m.memory), get_8(m.registers,
             i.x, m.memory)))
      [] i.op = "Xri"  -> logic_body(m, BitXor(get_8(m.registers, "A", m.memory), i.n))
      [] i.op = "Ora"  ->
             logic_body(m, BitOr(get_8(m.registers, "A", m.memory), get_8(m.registers,
             i.x, m.memory)))
      [] i.op = "Ori"  -> logic_body(m, BitOr(get_8(m.registers, "A", m.memory), i.n))
      [] i.op = "Cmp"  -> sub_body(m, get_8(m.registers, i.x, m.memory), FALSE)
      [] i.op = "Cpi"  -> sub_body(m, i.n, FALSE)
      [] i.op = "Rlc"  -> execute_Rlc(m, i)
      [] i.op = "Rrc"  -> execute_Rrc(m, i)
      [] i.op = "Ral"  -> execute_Ral(m, i)
      [] i.op = "Rar"  -> execute_Rar(m, i)
      [] i.op = "Cma"  ->
             Done(set_8(m, "A", BitNot8(get_8(m.registers, "A", m.memory))), "Running")
      [] i.op = "Cmc"  ->
             Done([m EXCEPT !.conditions.Carry = ~m.conditions.Carry], "Running")
      [] i.op = "Stc"  -> Done([m EXCEPT !.conditions.Carry = TRUE], "Running")
      [] i.op = "Jmp"  -> Done([m EXCEPT !.pc = Data16_from(i.n)], "ControlTransfer")
      [] i.op = "Jcc"  -> execute_Jcc(m, i)
      [] i.op = "Call" -> execute_Call(m, i)
      [] i.op = "Ccc"  -> execute_Ccc(m, i)
      [] i.op = "Ret"  -> execute_Ret(m, i)
      [] i.op = "Rcc"  -> execute_Rcc(m, i)
      [] i.op = "Rst"  -> execute_Rst(m, i)
      [] i.op = "Pchl" ->
             Done([m EXCEPT !.pc = register_16(m, "Hl")], "ControlTransfer")
      [] i.op = "Push" -> execute_Push(m, i)
      [] i.op = "Pop"  -> execute_Pop(m, i)
      [] i.op = "Xthl" -> execute_Xthl(m, i)
      [] i.op = "Sphl" ->
             LET hl == get_16(m.registers, "Hl") IN  Done([m EXCEPT !.registers =
             set_16(m.registers, "Sp", hl)], "Running")
      [] i.op = "In"   -> execute_In(m, i)
      [] i.op = "Out"  -> execute_Out(m, i)
      [] i.op = "Ei"   -> Done(m, "Running")
      [] i.op = "Di"   -> Done(m, "Running")
      [] i.op = "Hlt"  -> Done(m, "Halt")
      [] i.op = "Nop"  -> Done(m, "Running")

\* &self.memory().0[pc as usize..] as the decoder sees it: its first
\* FetchWindow bytes (fewer when the array ends sooner).
memory_from(mem, from) ==
    LET n == IF MEMORY_SIZE_BYTES - from < FetchWindow
             THEN MEMORY_SIZE_BYTES - from ELSE FetchWindow
    IN  [k \in 1..n |-> Memory_cell(mem, from + k - 1)]

\* Machine::load : the instruction at pc, NoInstr when the bytes do not decode
load(m) == decode(Reader_new(memory_from(m.memory, Data16_value(m.pc)))).ins

\* The match at the end of load_execute: ExecutionResult to MachineState
result_state(res) ==
    CASE res = "Running"         -> Running
      [] res = "ControlTransfer" -> Running
      [] res = "Halt"            -> Halted("HaltInstruction")
      [] res = "StackOverflow"   -> Halted("StackOverflow")
      [] res = "StackUnderflow"  -> Halted("StackUnderflow")
      [] res = "MemoryOverflow"  -> Halted("MemoryOverflow")

\* load_execute_finish with the pc moved by one byte whatever the length of
\* the instruction (a variant that claim C7 must tell apart).
load_execute_finish_one_byte(instruction_len, executed) ==
    [m |-> IF executed.r \in {"Running", "Halt"}
           THEN [executed.m EXCEPT !.pc =
                     Data16_from((Data16_value(executed.m.pc) + 1) % 65536)]
           ELSE executed.m,
     state |-> result_state(executed.r)]

\* load_execute after execute has returned: pc moves past the instruction
\* only for Running and Halt, and the result is mapped to a MachineState.
load_execute_finish(instruction_len, executed) ==
    [m |-> IF executed.r \in {"Running", "Halt"}
           THEN [executed.m EXCEPT !.pc =
                     Data16_from((Data16_value(executed.m.pc) + instruction_len)
                                 % 65536)]
           ELSE executed.m,
     state |-> result_state(executed.r)]

\* load_execute_decoded with the pc moved past the byte that did not decode
\* (a variant that claim C9 must tell apart).
load_execute_decoded_skipping(m, decoded) ==
    IF decoded.ins = NoInstr
    THEN [m |-> [m EXCEPT !.pc = Data16_from((Data16_value(m.pc) + 1) % 65536)],
          state |-> Halted("InvalidInstruction")]
    ELSE load_execute_finish(Reader_read_amount_bytes(decoded.stream),
                             execute(m, decoded.ins))

\* load_execute after the decoder has returned.
load_execute_decoded(m, decoded) ==
    IF decoded.ins = NoInstr
    THEN [m |-> m, state |-> Halted("InvalidInstruction")]
    ELSE load_execute_finish(Reader_read_amount_bytes(decoded.stream),
                             execute(m, decoded.ins))

\* Machine::load_execute : the machine afterwards (m) and the MachineState it
\* returns (state).
load_execute(m) ==
    load_execute_decoded(
        m, decode(Reader_new(memory_from(m.memory, Data16_value(m.pc)))))

\* run_cycle's assignment self.state = self.load_execute()
set_state(done) == [done.m EXCEPT !.state = done.state]

\* run_cycle without the match on self.state (a variant that claim C1 must
\* tell apart).
run_cycle_ignoring_halt(m) == set_state(load_execute(m))

\* Machine::run_cycle
run_cycle(m) ==
    IF m.state.kind = "Halted" THEN m ELSE set_state(load_execute(m))

-----------------------------------------------------------------------------
(* The machine under its host: a byte image is written into the memory of  *)
(* a new machine, then run_cycle is called repeatedly (ui.rs tick/input).  *)

\* The machine held in the variables.
Mach ==
    [state |-> state, memory |-> memory, registers |-> registers,
     conditions |-> conditions, pc |-> pc, stdout |-> stdout, stdin |-> stdin]

Segment(at, bytes) == [at |-> at, bytes |-> bytes]

\* Images of three shapes around one opcode byte b with operand bytes
\* 0x00 0x20: on a new machine (SP = 0, flags clear); after LXI SP,0x2000;
\* and after LXI SP,7 / POP PSW, which loads the flag byte 0xD7 (all five
\* flags set) and A = 0x9A from the two data bytes at 7.
OpcodeImages ==
    { <<Segment(0, <<b, 0, 32>>)>> : b \in 0..255 }
    \cup { <<Segment(0, <<49, 0, 32, b, 0, 32>>)>> : b \in 0..255 }
    \cup { <<Segment(0, <<49, 7, 0, 241, b, 0, 32, 215, 154>>)>> : b \in 0..255 }

\* Hand-written images.
ScenarioImages ==
    { \* LXI SP,0x2000 / JMP 0x0010 / 0x10: CALL 0x0020 / 0x20: RET
      <<Segment(0, <<49, 0, 32, 195, 16, 0>>), Segment(16, <<205, 32, 0>>),
        Segment(32, <<201>>)>>,
      \* the same with a conditional call and return (CNZ / RNC)
      <<Segment(0, <<49, 0, 32, 195, 16, 0>>), Segment(16, <<196, 32, 0>>),
        Segment(32, <<208>>)>>,
      \* LXI SP,0x2000 / RST 2 / 0x10: RET
      <<Segment(0, <<49, 0, 32, 215>>), Segment(16, <<201>>)>>,
      \* JMP 0xFFFF, where a NOP is the last byte of the 64K address space
      <<Segment(0, <<195, 255, 255>>)>>,
      \* JMP 0xFFFE / 0xFFFE: LXI B,0x1234
      <<Segment(0, <<195, 254, 255>>), Segment(65534, <<1, 52, 18>>)>>,
      \* JMP 0xFFFF / 0xFFFF: MVI A,0x41
      <<Segment(0, <<195, 255, 255>>), Segment(65535, <<62, 65>>)>>,
      \* IN 0 / OUT 0 / OUT 1 / IN 0 / HLT byte
      <<Segment(0, <<219, 0, 211, 0, 211, 1, 219, 0, 118>>)>>,
      \* LXI H,0x0102 / OUT 2 / MVI M,0x76 / INR M / HLT byte
      <<Segment(0, <<33, 2, 1, 211, 2, 54, 118, 52, 118>>)>>,
      \* MVI A,0x80 / ADD B / ADD A / ADC-coded byte 0x88 
      <<Segment(0, <<62, 128, 128, 135, 136>>)>>,
      \* LXI SP,0xFFFF / POP B ; LXI SP,1 / PUSH B
      <<Segment(0, <<49, 255, 255, 193>>)>>,
      <<Segment(0, <<49, 1, 0, 197>>)>>,
      \* LXI SP,0xFFFF / RET ; LXI SP,0xFFFE / POP B ; LXI SP,0xFFFD / POP B
      <<Segment(0, <<49, 255, 255, 201>>)>>,
      <<Segment(0, <<49, 254, 255, 193>>)>>,
      <<Segment(0, <<49, 253, 255, 193>>)>>,
      \* MVI A,0x41 / OUT 0 / OUT 1 / OUT 3 / LXI H,0xFFFF / OUT 2
      <<Segment(0, <<62, 65, 211, 0, 211, 1, 211, 3, 33, 255, 255, 211, 2>>)>>,
      \* LXI H,0x1234 / SHLD 0xFFFF
      <<Segment(0, <<33, 52, 18, 34, 255, 255>>)>>,
      \* LXI SP,0x2000 / LXI B,0x1234 / PUSH B / POP D
      <<Segment(0, <<49, 0, 32, 1, 52, 18, 197, 209>>)>> }

\* LXI SP,0x2000 / LXI rp,0x1234 / PUSH rp / POP rp, for rp = B, D, H; and
\* LXI SP,9 / POP PSW / PUSH PSW / POP PSW with a flag byte and A at 9 and 10.
PushPopImages ==
    { <<Segment(0, <<49, 0, 32, 1 + 16 * rp, 52, 18, 197 + 16 * rp, 193 + 16 * rp>>)>> :
        rp \in 0..2 }
    \cup { <<Segment(0, <<49, 9, 0, 241, 245, 241>>), Segment(9, <<flags, 154>>)>> :
             flags \in {0, 40, 69, 144, 215, 255} }

\* LXI SP,7 / POP PSW / a conditional jump, call or return (target 0x2000),
\* with a flags byte that sets exactly one of Carry, Parity, Zero, Sign.
ConditionImages ==
    { <<Segment(0, <<49, 7, 0, 241, base + 8 * cc, 0, 32, flags, 154>>)>> :
        base \in {192, 194, 196}, cc \in 0..7, flags \in {1, 4, 64, 128} }

Programs == OpcodeImages \cup ScenarioImages \cup PushPopImages \cup ConditionImages

\* Contents of the host's standard input.
Stdins == { <<>>, <<65>> }

RECURSIVE load_image(_, _, _)
load_image(mem, image, k) ==
    IF k > Len(image) THEN mem
    ELSE load_image(Memory_write_slice(mem, image[k].at, image[k].bytes).mem,
                    image, k + 1)

\* Fields of the model that are not fields of the Machine.
idle_codec == [phase |-> "idle", ins |-> NoInstr, bytes |-> <<>>,
               out |-> NoInstr, len |-> 0]
idle_asm == [phase |-> "idle"]
idle_ui == [phase |-> "idle"]

Init ==
    /\ stdin \in Stdins
    /\ state = Machine_new(stdin).state
    /\ memory = Machine_new(stdin).memory
    /\ registers = Machine_new(stdin).registers
    /\ conditions = Machine_new(stdin).conditions
    /\ pc = Machine_new(stdin).pc
    /\ stdout = Machine_new(stdin).stdout
    /\ cycles = 0
    /\ instr = NoInstr
    /\ outcome = "None"
    /\ prev = Machine_new(stdin)
    /\ codec = idle_codec
    /\ asm = idle_asm
    /\ ui = idle_ui

\* The host writes a program image into the new machine's memory
\* (machine.memory_mut().write_slice) before the first cycle.
Load ==
    /\ cycles = 0
    /\ memory = Memory_new
    /\ \E image \in Programs : memory' = load_image(memory, image, 1)
    /\ prev' = Mach
    /\ UNCHANGED <<state, registers, conditions, pc, stdout, stdin, cycles,
                   instr, outcome, codec, asm, ui>>

\* The machine m becomes the machine held in the variables.
Becomes(m) ==
    /\ state' = m.state
    /\ memory' = m.memory
    /\ registers' = m.registers
    /\ conditions' = m.conditions
    /\ pc' = m.pc
    /\ stdout' = m.stdout
    /\ stdin' = m.stdin

\* What execute returns for the instruction load_execute decodes, "None"
\* when execute is not reached.
outcome_of(m, decoded) ==
    IF m.state.kind = "Running" /\ decoded # NoInstr
    THEN execute(m, decoded).r ELSE "None"

\* The host calls run_cycle. instr and outcome record what load_execute
\* decoded and what execute returned.
RunCycle ==
    /\ cycles < MaxCycles
    /\ Becomes(run_cycle(Mach))
    /\ instr' = IF state.kind = "Running" THEN load(Mach) ELSE NoInstr
    /\ outcome' = outcome_of(Mach, instr')
    /\ prev' = Mach
    /\ cycles' = cycles + 1
    /\ UNCHANGED <<codec, asm, ui>>

Next == Load \/ RunCycle

Spec == Init /\ [][Next]_vars

-----------------------------------------------------------------------------
(* One instruction executed on a prepared machine, as the tests of         *)
(* machine.rs do: Machine::new, conditions.set, registers.set_8, execute.  *)

\* Values given to A and to the operand (register B, the byte at HL and the
\* immediate).
SampleBytes == {0, 1, 9, 15, 128, 154, 255}

\* Values given to the register pairs.
SamplePairs == {0, 255, 4660, 32768, 65280, 65535}

\* test setup: machine.conditions.set(..) and machine.registers.set_8(..);
\* HL is 0, so register M is the byte at address 0.
Prepared(a, operand, cy_flag, ac_flag) ==
    set_8(set_8(set_8([Machine_new(<<>>) EXCEPT
                           !.conditions.Carry = cy_flag,
                           !.conditions.AuxiliaryCarry = ac_flag],
                      "A", a),
                "B", operand),
          "M", operand)

\* test setup with machine.registers.set_16(..): HL, then the pair rp; the
\* five flags are all set or all clear.
PreparedPair(rp, value, hl, flags) ==
    [Machine_new(<<>>) EXCEPT
        !.registers = set_16(set_16(@, "Hl", Data16_from(hl)), rp, Data16_from(value)),
        !.conditions = [Carry |-> flags, AuxiliaryCarry |-> flags, Zero |-> flags,
                        Sign |-> flags, Parity |-> flags]]

\* test setup with distinct bytes in A, B, C, D, E, the pair HL and the byte
\* at HL; the five flags are all set or all clear.
PreparedMov(hl, at_hl, flags) ==
    set_8([Machine_new(<<>>) EXCEPT
              !.registers = set_16([@ EXCEPT !.a = 17, !.b = 34, !.c = 51, !.d = 68,
                                              !.e = 85],
                                   "Hl", Data16_from(hl)),
              !.conditions = [Carry |-> flags, AuxiliaryCarry |-> flags, Zero |-> flags,
                              Sign |-> flags, Parity |-> flags]],
          "M", at_hl)

\* The instructions executed, the operand being register B, the byte at HL
\* (register M) or the immediate.
ExecInstructions(operand) ==
    { Ins(op, "B", "-", 0) :
        op \in {"Add", "Adc", "Sub", "Sbb", "Ana", "Xra", "Ora", "Cmp", "Inr", "Dcr"} }
    \cup { Ins(op, "M", "-", 0) : op \in {"Cmp", "Inr", "Dcr"} }
    \cup { Ins(op, "-", "-", operand) :
             op \in {"Adi", "Aci", "Sui", "Sbi", "Ani", "Xri", "Ori", "Cpi"} }
    \cup { Ins0(op) : op \in {"Daa", "Rlc", "Rrc", "Ral", "Rar"} }

\* The 16-bit instructions executed on the pair rp.
ExecPairInstructions(rp) == { Ins(op, rp, "-", 0) : op \in {"Inx", "Dcx", "Dad"} }

InitExec ==
    /\ \/ \E a \in SampleBytes, operand \in SampleBytes, cy_flag \in BOOLEAN,
             ac_flag \in BOOLEAN :
             /\ prev = Prepared(a, operand, cy_flag, ac_flag)
             /\ instr \in ExecInstructions(operand)
       \/ \E a \in 0..255, cy_flag \in BOOLEAN, ac_flag \in BOOLEAN :
             /\ prev = Prepared(a, 0, cy_flag, ac_flag)
             /\ instr = Ins0("Daa")
       \/ \E hl \in {8199, 65535}, at_hl \in {0, 153}, flags \in BOOLEAN :
             /\ prev = PreparedMov(hl, at_hl, flags)
             /\ instr \in { Ins("Mov", d, r, 0) : d \in Registers, r \in Registers }
       \/ \E rp \in RegisterPairs, value \in SamplePairs, hl \in SamplePairs,
             flags \in BOOLEAN :
             /\ prev = PreparedPair(rp, value, hl, flags)
             /\ instr \in ExecPairInstructions(rp)
    /\ state = prev.state
    /\ memory = prev.memory
    /\ registers = prev.registers
    /\ conditions = prev.conditions
    /\ pc = prev.pc
    /\ stdout = prev.stdout
    /\ stdin = prev.stdin
    /\ cycles = 0
    /\ outcome = "None"
    /\ codec = idle_codec
    /\ asm = idle_asm
    /\ ui = idle_ui

\* machine.execute(instruction)
Execute ==
    /\ outcome = "None"
    /\ Becomes(execute(Mach, instr).m)
    /\ outcome' = execute(Mach, instr).r
    /\ prev' = Mach
    /\ cycles' = cycles + 1
    /\ UNCHANGED <<instr, codec, asm, ui>>

NextExec == Execute

SpecExec == InitExec /\ [][NextExec]_vars

-----------------------------------------------------------------------------
(* The codec on its own: an instruction is encoded and the bytes decoded,  *)
(* or a byte string is handed to the decoder.                              *)

SampleData8 == {0, 52, 255}
SampleData16 == {0, 4660, 65535}

CodecInstructions ==
    { Ins0(op) : op \in {"Nop", "Hlt", "Xchg", "Daa", "Rlc", "Rrc", "Ral", "Rar",
                         "Cma", "Cmc", "Stc", "Ret", "Pchl", "Xthl", "Sphl",
                         "Ei", "Di"} }
    \cup { Ins("Mov", d, r, 0) : d \in Registers, r \in Registers }
    \cup { Ins("Mvi", d, "-", n) : d \in Registers, n \in SampleData8 }
    \cup { Ins(op, "-", "-", n) :
             op \in {"Adi", "Aci", "Sui", "Sbi", "Ani", "Xri", "Ori", "Cpi",
                     "In", "Out"},
             n \in SampleData8 }
    \cup { Ins("Lxi", rp, "-", n) : rp \in RegisterPairs, n \in SampleData16 }
    \cup { Ins(op, "-", "-", n) :
             op \in {"Lda", "Sta", "Lhld", "Shld", "Jmp", "Call"},
             n \in SampleData16 }
    \cup { Ins(op, rp, "-", 0) :
             op \in {"Ldax", "Stax"}, rp \in RegisterPairsIndirect }
    \cup { Ins(op, r, "-", 0) :
             op \in {"Add", "Adc", "Sub", "Sbb", "Inr", "Dcr", "Ana", "Xra",
                     "Ora", "Cmp"},
             r \in Registers }
    \cup { Ins(op, rp, "-", 0) : op \in {"Inx", "Dcx", "Dad"}, rp \in RegisterPairs }
    \cup { Ins(op, rp, "-", 0) : op \in {"Push", "Pop"}, rp \in RegisterPairsOrStatus }
    \cup { Ins(op, cc, "-", n) : op \in {"Jcc", "Ccc"}, cc \in Conditions,
                                 n \in SampleData16 }
    \cup { Ins("Rcc", cc, "-", 0) : cc \in Conditions }
    \cup { Ins("Rst", "-", "-", n) : n \in 0..7 }

\* Byte strings handed to the decoder: every first byte, alone and followed
\* by one or two operand bytes.
CodecBytes ==
    { <<b>> : b \in 0..255 } \cup { <<b, 52>> : b \in 0..255 }
    \cup { <<b, 52, 18>> : b \in 0..255 }

InitCodec ==
    /\ state = Machine_new(<<>>).state
    /\ memory = Machine_new(<<>>).memory
    /\ registers = Machine_new(<<>>).registers
    /\ conditions = Machine_new(<<>>).conditions
    /\ pc = Machine_new(<<>>).pc
    /\ stdout = Machine_new(<<>>).stdout
    /\ stdin = <<>>
    /\ cycles = 0
    /\ instr = NoInstr
    /\ outcome = "None"
    /\ prev = Machine_new(<<>>)
    /\ asm = idle_asm
    /\ ui = idle_ui
    /\ \/ \E i \in CodecInstructions :
             codec = [phase |-> "instruction", ins |-> i, bytes |-> <<>>,
                      out |-> NoInstr, len |-> 0]
       \/ \E bytes \in CodecBytes :
             codec = [phase |-> "bytes", ins |-> NoInstr, bytes |-> bytes,
                      out |-> NoInstr, len |-> 0]

\* coding::encode(&mut buffer, instruction)
CodecEncode ==
    /\ codec.phase = "instruction"
    /\ codec' = [codec EXCEPT !.phase = "encoded", !.bytes = encode(codec.ins)]
    /\ UNCHANGED <<state, memory, registers, conditions, pc, stdout, stdin,
                   cycles, instr, outcome, prev, asm, ui>>

\* The reader after coding::decode(&mut stream) recorded in the codec state.
decoded_into(c, decoded) ==
    [c EXCEPT !.phase = "decoded", !.out = decoded.ins,
              !.len = Reader_read_amount_bytes(decoded.stream)]

\* coding::decode(&mut Reader::new(&bytes)) and stream.read_amount_bytes()
CodecDecode ==
    /\ codec.phase \in {"encoded", "bytes"}
    /\ codec' = decoded_into(codec, decode(Reader_new(codec.bytes)))
    /\ UNCHANGED <<state, memory, registers, conditions, pc, stdout, stdin,
                   cycles, instr, outcome, prev, asm, ui>>

NextCodec == CodecEncode \/ CodecDecode

SpecCodec == InitCodec /\ [][NextCodec]_vars

-----------------------------------------------------------------------------
(* Properties of run_cycle (specification Spec).                           *)

\* C1: once the machine is Halted, a later run_cycle call is a no-op: the
\* state, the registers (SP included), the flags, the PC, the memory and the
\* collected output all stay as they are.
C1_HaltedCycleIsNoOp ==
    [][(state.kind = "Halted" /\ cycles' = cycles + 1)
         => UNCHANGED <<state, memory, registers, conditions, pc, stdout>>]_vars

\* run_cycle has been called on a machine that an instruction had halted
\* after moving the PC.
C1_Witness ==
    /\ prev.state = Halted("HaltInstruction")
    /\ prev.pc # Data16_ZERO
    /\ cycles >= 2
    /\ prev = Mach

\* C4: a CALL a at address p followed by the RET at a leaves PC = p + 3 and
\* SP as it was before the CALL (CALL 0x0020 at 0x0010 with SP = 0x2000, RET
\* at 0x0020: PC = 0x0013, SP = 0x2000). At the RET step, prev is the machine
\* before the CALL.
C4_CallThenRet ==
    [][(/\ instr.op = "Call" /\ outcome = "ControlTransfer"
        /\ cycles' = cycles + 1
        /\ instr'.op = "Ret" /\ outcome' = "Running")
         => (/\ pc' = Data16_from((Data16_value(prev.pc) + 3) % 65536)
             /\ registers'.sp = prev.registers.sp)]_vars

\* C5: CALL, a taken Ccc and RST n push the address of the next instruction
\* (the instruction's address + 3, + 1 for RST) and set PC to the target (the
\* operand, n << 3 for RST).
C5_CallPushesNextAddress ==
    (outcome = "ControlTransfer" /\ instr.op \in {"Call", "Ccc", "Rst"})
      => (/\ Memory_read_16(memory, Data16_value(registers.sp)).v
               = Data16_from((Data16_value(prev.pc)
                              + (IF instr.op = "Rst" THEN 1 ELSE 3)) % 65536)
          /\ pc = Data16_from(IF instr.op = "Rst" THEN instr.n * 8 ELSE instr.n))

\* C6: after a control transfer that does not fault (JMP, taken Jcc, CALL,
\* taken Ccc, RST, RET, taken Rcc, PCHL) the PC is exactly the value the
\* instruction assigned: the operand, n << 3, HL, or the word popped from the
\* stack; no instruction length is added to it.
C6_TransferSetsPcExactly ==
    (\/ outcome = "ControlTransfer"
     \/ (outcome = "Running" /\ instr.op = "Ret")
     \/ (outcome = "Running" /\ instr.op = "Rcc" /\ condition_holds(prev, instr.x)))
      => pc = CASE instr.op \in {"Jmp", "Jcc", "Call", "Ccc"} -> Data16_from(instr.n)
                [] instr.op = "Rst" -> Data16_from(instr.n * 8)
                [] instr.op = "Pchl" -> get_16(prev.registers, "Hl")
                [] instr.op \in {"Ret", "Rcc"}
                     -> Memory_read_16(prev.memory,
                                       Data16_value(prev.registers.sp)).v

\* The byte length of each instruction in the 8080 instruction set.
documented_length(op) ==
    CASE op \in {"Lxi", "Lda", "Sta", "Lhld", "Shld", "Jmp", "Jcc", "Call", "Ccc"} -> 3
      [] op \in {"Mvi", "Adi", "Aci", "Sui", "Sbi", "Ani", "Xri", "Ori", "Cpi",
                 "In", "Out"} -> 2
      [] OTHER -> 1

\* C7: a cycle whose instruction is not a control transfer (an untaken Jcc,
\* Ccc or Rcc included) and does not fault moves the PC forward by exactly
\* the byte length of the decoded instruction (1, 2 or 3), modulo 2^16.
C7_PcAdvancesByLength ==
    [][(/\ state.kind = "Running"
        /\ cycles' = cycles + 1
        /\ instr' # NoInstr
        /\ outcome' \in {"Running", "Halt"}
        /\ instr'.op \notin {"Jmp", "Call", "Rst", "Ret", "Pchl"}
        /\ ~(instr'.op \in {"Jcc", "Ccc", "Rcc"} /\ condition_holds(Mach, instr'.x)))
         => pc' = Data16_from((Data16_value(pc) + documented_length(instr'.op))
                              % 65536)]_vars

\* A three-byte instruction at 0xFFFE has run and the PC has wrapped to 1.
C7_Witness ==
    /\ cycles > 0
    /\ instr.op = "Lxi"
    /\ outcome = "Running"
    /\ Data16_value(prev.pc) = 65534
    /\ Data16_value(pc) = 1

\* C8: when the byte at PC is 0x76, one run_cycle leaves the machine
\* Halted(HaltInstruction) with PC one past the byte and with the registers,
\* the flags and the memory unchanged.
C8_HltHalts ==
    [][(/\ state.kind = "Running"
        /\ cycles' = cycles + 1
        /\ Memory_read_8(memory, Data16_value(pc)) = 118)
         => (/\ state' = Halted("HaltInstruction")
             /\ pc' = Data16_from((Data16_value(pc) + 1) % 65536)
             /\ UNCHANGED <<registers, conditions, memory>>)]_vars

\* C9: when the bytes at PC do not decode, run_cycle leaves the machine
\* Halted(InvalidInstruction) and changes nothing else: PC, registers, flags,
\* memory and collected output are as before.
C9_InvalidInstructionHalts ==
    [][(/\ state.kind = "Running"
        /\ cycles' = cycles + 1
        /\ load(Mach) = NoInstr)
         => (/\ state' = Halted("InvalidInstruction")
             /\ UNCHANGED <<memory, registers, conditions, pc, stdout>>)]_vars

\* A cycle has met bytes that do not decode, after earlier cycles had moved
\* the PC and loaded SP.
C9_Witness ==
    /\ state = Halted("InvalidInstruction")
    /\ prev.state = Running
    /\ instr = NoInstr
    /\ pc # Data16_ZERO
    /\ registers.sp # Data16_ZERO

-----------------------------------------------------------------------------
(* Properties of the codec (specification SpecCodec).                      *)

\* C2: for every instruction i, decoding the bytes encode(i) gives back i
\* and consumes exactly len(encode(i)) bytes. Stated over the variants whose
\* encoder coding/encode.rs defines.
C2_EncodeDecodeRoundTrip ==
    (codec.phase = "decoded" /\ codec.ins # NoInstr /\ codec.ins.op \notin SkippedOps)
      => (codec.out = codec.ins /\ codec.len = Len(codec.bytes))

\* C3: decoding bytes that start with 0x76 gives HLT, of length 1, and never
\* MOV M,M.
C3_Byte76IsHlt ==
    (codec.phase = "decoded" /\ codec.bytes # <<>> /\ Head(codec.bytes) = 118)
      => (codec.out = Ins0("Hlt") /\ codec.len = 1)

-----------------------------------------------------------------------------
(* Properties of execute (specification SpecExec).                         *)

\* C10: after each 8-bit arithmetic or logical instruction that writes A
\* (ADD, ADI, ADC, ACI, SUB, SUI, SBB, SBI, ANA, ANI, XRA, XRI, ORA, ORI, DAA)
\* Zero is set exactly when A = 0, Sign exactly when bit 7 of A is set, and
\* Parity exactly when A has an even number of 1 bits.
C10_ZeroSignParity ==
    (outcome # "None"
     /\ instr.op \in {"Add", "Adi", "Adc", "Aci", "Sub", "Sui", "Sbb", "Sbi",
                      "Ana", "Ani", "Xra", "Xri", "Ora", "Ori", "Daa"})
      => (/\ conditions.Zero <=> (registers.a = 0)
          /\ conditions.Sign <=> (registers.a >= 128)
          /\ conditions.Parity <=> (count_ones(registers.a) % 2 = 0))


\* The left operand, the right operand and the carry-in of the addition an
\* executed Add, Adi, Adc, Aci or Inr performed, read from the state before.
added_left == IF instr.op = "Inr" THEN get_8(prev.registers, instr.x, prev.memory)
              ELSE prev.registers.a

added_term ==
    CASE instr.op \in {"Add", "Adc"} -> get_8(prev.registers, instr.x, prev.memory)
      [] instr.op \in {"Adi", "Aci"} -> instr.n
      [] OTHER -> 1

added_carry == IF instr.op \in {"Adc", "Aci"} /\ prev.conditions.Carry THEN 1 ELSE 0

\* C11: after ADD, ADI, ADC, ACI and INR the AuxiliaryCarry flag is set exactly
\* when the addition of the low nibbles (plus the carry-in for ADC and ACI)
\* carries out of bit 3; with A = 0xFF, ADI 0x01 leaves A = 0x00, Zero, Carry,
\* AuxiliaryCarry and Parity set and Sign clear.
C11_AuxCarryOnAdd ==
    /\ (outcome # "None" /\ instr.op \in {"Add", "Adi", "Adc", "Aci", "Inr"})
         => (conditions.AuxiliaryCarry
               <=> ((added_left % 16) + (added_term % 16) + added_carry >= 16))
    /\ (outcome # "None" /\ instr = Ins("Adi", "-", "-", 1) /\ prev.registers.a = 255)
         => (/\ registers.a = 0
             /\ conditions.Zero /\ conditions.Carry /\ conditions.AuxiliaryCarry
             /\ ~conditions.Sign /\ conditions.Parity)

\* The subtrahend of an executed Sub, Sui, Sbb, Sbi, Cmp or Cpi, read from the
\* state before.
subtrahend ==
    IF instr.op \in {"Sub", "Sbb", "Cmp"}
    THEN get_8(prev.registers, instr.x, prev.memory)
    ELSE instr.n

\* C12: after SUB, SUI, CMP and CPI of x from A the Carry flag is set exactly
\* when x > A (a borrow), x = 0 included; after SBB and SBI exactly when
\* x plus the previous Carry exceeds A.
C12_CarryIsBorrow ==
    /\ (outcome # "None" /\ instr.op \in {"Sub", "Sui", "Cmp", "Cpi"})
         => (conditions.Carry <=> (subtrahend > prev.registers.a))
    /\ (outcome # "None" /\ instr.op \in {"Sbb", "Sbi"})
         => (conditions.Carry
               <=> (subtrahend + BoolToInt(prev.conditions.Carry) > prev.registers.a))

\* The subtraction with the operand of an executed Cmp or Cpi.
subtraction_of(i) == IF i.op = "Cmp" THEN Ins("Sub", i.x, "-", 0) ELSE Ins("Sui", "-", "-", i.n)

\* C13: CMP r and CPI d leave A, every other register and memory unchanged,
\* and produce the five flag values that SUB r / SUI d produces from the same
\* state.
C13_CompareIsSubtractWithoutStore ==
    (outcome # "None" /\ instr.op \in {"Cmp", "Cpi"})
      => (/\ registers = prev.registers
          /\ memory = prev.memory
          /\ conditions = execute(prev, subtraction_of(instr)).m.conditions)

\* A compare of unequal bytes has been executed and has changed the flags.
C13_Witness ==
    /\ outcome = "Running"
    /\ instr.op \in {"Cmp", "Cpi"}
    /\ prev.registers.a = 9
    /\ subtrahend = 1
    /\ registers.a = 9
    /\ conditions # prev.conditions

\* C14: INR r / DCR r set r (the byte at HL when r = M) to (r + 1) mod 256 /
\* (r - 1) mod 256, return Running, set Zero, Sign and Parity from the
\* result and AuxiliaryCarry from the carry out of bit 3 of the addition of 1
\* (of 0xFF for DCR), and leave Carry unchanged.
C14_InrDcr ==
    (outcome # "None" /\ instr.op \in {"Inr", "Dcr"})
      => LET value == get_8(prev.registers, instr.x, prev.memory)
             delta == IF instr.op = "Inr" THEN 1 ELSE 255
             result == (value + delta) % 256
         IN  /\ outcome = "Running"
             /\ get_8(registers, instr.x, memory) = result
             /\ conditions.Zero <=> (result = 0)
             /\ conditions.Sign <=> (result >= 128)
             /\ conditions.Parity <=> (count_ones(result) % 2 = 0)
             /\ conditions.AuxiliaryCarry <=> ((value % 16) + (delta % 16) >= 16)
             /\ conditions.Carry = prev.conditions.Carry

\* The operand of an executed Ana, Xra, Ora (a register) or Ani, Xri, Ori (the
\* immediate), read from the state before.
logic_operand ==
    IF instr.op \in {"Ana", "Xra", "Ora"}
    THEN get_8(prev.registers, instr.x, prev.memory)
    ELSE instr.n

\* C15: after ANA, ANI, XRA, XRI, ORA and ORI, A holds the bitwise AND, XOR or
\* OR of the old A and the operand, and Carry and AuxiliaryCarry are both 0
\* whatever they were before.
C15_LogicClearsCarries ==
    (outcome # "None" /\ instr.op \in {"Ana", "Ani", "Xra", "Xri", "Ora", "Ori"})
      => (/\ registers.a =
               CASE instr.op \in {"Ana", "Ani"} -> BitAnd(prev.registers.a, logic_operand)
                 [] instr.op \in {"Xra", "Xri"} -> BitXor(prev.registers.a, logic_operand)
                 [] OTHER -> BitOr(prev.registers.a, logic_operand)
          /\ ~conditions.Carry
          /\ ~conditions.AuxiliaryCarry)

\* The two documented DAA rules applied to accumulator a with flags ac, cy:
\* the accumulator after the low adjustment, and after the high adjustment.
daa_low(a, ac) == IF (a % 16) > 9 \/ ac THEN (a + 6) % 256 ELSE a

daa_high_adjusts(a, ac, cy) == (daa_low(a, ac) \div 16) > 9 \/ cy

daa_adjusted(a, ac, cy) ==
    IF daa_high_adjusts(a, ac, cy) THEN (daa_low(a, ac) + 96) % 256 ELSE daa_low(a, ac)

\* C16: DAA follows the two documented rules for every A, AuxiliaryCarry and
\* Carry: if the low nibble exceeds 9 or AuxiliaryCarry is set, 6 is added and
\* AuxiliaryCarry is set iff the low nibble exceeded 9; then if the high
\* nibble exceeds 9 or Carry is set, 0x60 is added and Carry is set iff that
\* high adjustment overflowed 8 bits; Zero, Sign and Parity reflect the
\* adjusted A.
C16_DaaRules ==
    (outcome # "None" /\ instr.op = "Daa")
      => LET a == prev.registers.a
             ac == prev.conditions.AuxiliaryCarry
             cy == prev.conditions.Carry
         IN  /\ registers.a = daa_adjusted(a, ac, cy)
             /\ conditions.AuxiliaryCarry <=> ((a % 16) > 9)
             /\ conditions.Carry
                  <=> (daa_high_adjusts(a, ac, cy) /\ daa_low(a, ac) + 96 > 255)
             /\ conditions.Zero <=> (registers.a = 0)
             /\ conditions.Sign <=> (registers.a >= 128)
             /\ conditions.Parity <=> (count_ones(registers.a) % 2 = 0)

\* The machine after n successive executions of instruction i from m.
RECURSIVE executed_times(_, _, _)
executed_times(m, i, n) == IF n = 0 THEN m ELSE executed_times(execute(m, i).m, i, n - 1)

\* C17: RLC and RRC rotate A circularly by one bit and set Carry to the bit
\* moved from one end to the other; RAL and RAR rotate the 9-bit quantity
\* formed by Carry and A; so eight RLCs (RRCs) restore A, and nine RALs (RARs)
\* restore both A and Carry.
C17_Rotates ==
    (outcome # "None" /\ instr.op \in {"Rlc", "Rrc", "Ral", "Rar"})
      => LET a == prev.registers.a
             cy == BoolToInt(prev.conditions.Carry)
         IN  /\ instr.op = "Rlc"
                  => /\ registers.a = ((2 * a) % 256) + (a \div 128)
                     /\ conditions.Carry <=> (a >= 128)
                     /\ executed_times(prev, instr, 8).registers.a = a
             /\ instr.op = "Rrc"
                  => /\ registers.a = (a \div 2) + 128 * (a % 2)
                     /\ conditions.Carry <=> (a % 2 = 1)
                     /\ executed_times(prev, instr, 8).registers.a = a
             /\ instr.op = "Ral"
                  => /\ registers.a = ((2 * a) % 256) + cy
                     /\ conditions.Carry <=> (a >= 128)
                     /\ executed_times(prev, instr, 9).registers.a = a
                     /\ executed_times(prev, instr, 9).conditions.Carry = prev.conditions.Carry
             /\ instr.op = "Rar"
                  => /\ registers.a = (a \div 2) + 128 * cy
                     /\ conditions.Carry <=> (a % 2 = 1)
                     /\ executed_times(prev, instr, 9).registers.a = a
                     /\ executed_times(prev, instr, 9).conditions.Carry = prev.conditions.Carry

\* The 16-bit value held by the two registers (or SP) of pair rp.
pair_value(regs, rp) ==
    CASE rp = "Bc" -> regs.b * 256 + regs.c
      [] rp = "De" -> regs.d * 256 + regs.e
      [] rp = "Hl" -> regs.h * 256 + regs.l
      [] rp = "Sp" -> regs.sp.high * 256 + regs.sp.low

\* C18: INX rp / DCX rp change the 16-bit pair by +1 / -1 modulo 2^16, carrying
\* across the byte boundary (0xFF00 -> 0xFF01, 0x00FF -> 0x0100), and leave
\* all five flags unchanged; DAD rp sets HL to (HL + rp) mod 2^16 and changes
\* no flag other than Carry, which becomes the 16-bit carry-out.
C18_PairArithmetic ==
    /\ (outcome # "None" /\ instr.op = "Inx")
         => /\ pair_value(registers, instr.x)
                 = (pair_value(prev.registers, instr.x) + 1) % 65536
            /\ conditions = prev.conditions
    /\ (outcome # "None" /\ instr.op = "Dcx")
         => /\ pair_value(registers, instr.x)
                 = (pair_value(prev.registers, instr.x) + 65535) % 65536
            /\ conditions = prev.conditions
    /\ (outcome # "None" /\ instr.op = "Dad")
         => LET sum == pair_value(prev.registers, "Hl") + pair_value(prev.registers, instr.x)
            IN  /\ pair_value(registers, "Hl") = sum % 65536
                /\ conditions = [prev.conditions EXCEPT !.Carry = (sum >= 65536)]

\* An INX has carried from the low byte into the high byte (0x00FF to 0x0100)
\* with the flags set beforehand.
C18_Witness ==
    /\ outcome = "Running"
    /\ instr = Ins("Inx", "Bc", "-", 0)
    /\ prev.registers.b = 0 /\ prev.registers.c = 255
    /\ registers.b = 1 /\ registers.c = 0
    /\ prev.conditions.Carry /\ prev.conditions.Zero

\* C19: PUSH rp with SP >= 2 stores the low byte of rp at SP-2 and the high
\* byte at SP-1, sets SP := SP-2 and changes no other memory; POP rp reads
\* the low byte from SP and the high byte from SP+1 and sets SP := SP+2
\* (SP = 0x2000, BC = 0x1234, PUSH B, POP D: DE = 0x1234, SP = 0x2000,
\* memory[0x1FFE] = 0x34, memory[0x1FFF] = 0x12).
C19_PushPopLayout ==
    /\ (outcome # "None" /\ instr.op = "Push" /\ instr.x # "StatusWord"
        /\ pair_value(prev.registers, "Sp") >= 2)
         => LET sp == pair_value(prev.registers, "Sp")
                value == pair_value(prev.registers, instr.x)
            IN  /\ outcome = "Running"
                /\ pair_value(registers, "Sp") = sp - 2
                /\ \A address \in DOMAIN memory \cup DOMAIN prev.memory \cup {sp - 2, sp - 1} :
                      Memory_cell(memory, address)
                        = CASE address = sp - 2 -> value % 256
                            [] address = sp - 1 -> value \div 256
                            [] OTHER -> Memory_cell(prev.memory, address)
    /\ (outcome = "Running" /\ instr.op = "Pop" /\ instr.x # "StatusWord")
         => LET sp == pair_value(prev.registers, "Sp")
            IN  /\ pair_value(registers, instr.x)
                     = Memory_cell(prev.memory, sp) + 256 * Memory_cell(prev.memory, sp + 1)
                /\ pair_value(registers, "Sp") = sp + 2
                /\ memory = prev.memory

\* The example: POP D has just read back the 0x1234 that PUSH B stored below
\* SP = 0x2000.
C19_Witness ==
    /\ outcome = "Running"
    /\ instr = Ins("Pop", "De", "-", 0)
    /\ registers.d = 18 /\ registers.e = 52
    /\ registers.b = 18 /\ registers.c = 52
    /\ registers.sp = Data16_new(0, 32)
    /\ Memory_cell(memory, 8190) = 52
    /\ Memory_cell(memory, 8191) = 18

\* C20: PUSH x immediately followed by POP x, neither faulting, returns x and
\* SP to their values before the PUSH for x in {BC, DE, HL}; for PSW it
\* restores A and all five flags. At the POP step, prev is the machine before
\* the PUSH.
C20_PushThenPopRestores ==
    [][(/\ instr.op = "Push" /\ outcome = "Running"
        /\ cycles' = cycles + 1
        /\ instr'.op = "Pop" /\ instr'.x = instr.x /\ outcome' = "Running")
         => (/\ registers'.sp = prev.registers.sp
             /\ instr.x # "StatusWord"
                  => pair_value(registers', instr.x) = pair_value(prev.registers, instr.x)
             /\ instr.x = "StatusWord"
                  => (/\ registers'.a = prev.registers.a
                      /\ conditions' = prev.conditions))]_vars

\* POP PSW has just followed PUSH PSW with A = 0x9A and Zero, Parity and Carry
\* set, Sign and AuxiliaryCarry clear.
C20_Witness ==
    /\ outcome = "Running"
    /\ instr = Ins("Pop", "StatusWord", "-", 0)
    /\ cycles = 4
    /\ prev.registers.sp = Data16_new(9, 0)
    /\ registers.sp = Data16_new(11, 0)
    /\ registers.a = 154
    /\ conditions = [Carry |-> TRUE, AuxiliaryCarry |-> FALSE, Zero |-> TRUE,
                     Sign |-> FALSE, Parity |-> TRUE]

\* Bit k of byte b.
bit_of(b, k) == (b \div (2 ^ k)) % 2

\* C21: the word written by PUSH PSW has A in the high byte and the flags
\* byte bit7 = S, bit6 = Z, bit5 = 0, bit4 = AC, bit3 = 0, bit2 = P, bit1 = 1,
\* bit0 = CY; POP PSW sets A from the high byte and S, Z, AC, P, CY from bits
\* 7, 6, 4, 2, 0 of the low byte, ignoring bits 1, 3 and 5.
C21_StatusWordLayout ==
    /\ (outcome = "Running" /\ instr = Ins("Push", "StatusWord", "-", 0))
         => LET sp == pair_value(registers, "Sp")
                f == prev.conditions
            IN  /\ Memory_cell(memory, sp + 1) = prev.registers.a
                /\ Memory_cell(memory, sp)
                     = 128 * BoolToInt(f.Sign) + 64 * BoolToInt(f.Zero)
                       + 16 * BoolToInt(f.AuxiliaryCarry) + 4 * BoolToInt(f.Parity)
                       + 2 + BoolToInt(f.Carry)
    /\ (outcome = "Running" /\ instr = Ins("Pop", "StatusWord", "-", 0))
         => LET sp == pair_value(prev.registers, "Sp")
                low == Memory_cell(prev.memory, sp)
            IN  /\ registers.a = Memory_cell(prev.memory, sp + 1)
                /\ conditions = [Sign |-> bit_of(low, 7) = 1, Zero |-> bit_of(low, 6) = 1,
                                 AuxiliaryCarry |-> bit_of(low, 4) = 1,
                                 Parity |-> bit_of(low, 2) = 1,
                                 Carry |-> bit_of(low, 0) = 1]

\* POP PSW has read the flags byte 0x28 (only bits 3 and 5 set) and left all
\* five flags clear; and PUSH PSW then wrote it back as 0x02.
C21_Witness ==
    /\ outcome = "Running"
    /\ instr = Ins("Push", "StatusWord", "-", 0)
    /\ Memory_cell(prev.memory, 9) = 40
    /\ Memory_cell(memory, 9) = 2
    /\ Memory_cell(memory, 10) = 154
    /\ registers.a = 154
    /\ registers.sp = Data16_new(9, 0)
    /\ conditions = ConditionRegisters_new

\* The documented predicate of each condition on the flags f.
documented_condition(condition, f) ==
    CASE condition = "NoZero"     -> ~f.Zero
      [] condition = "Zero"       -> f.Zero
      [] condition = "NoCarry"    -> ~f.Carry
      [] condition = "Carry"      -> f.Carry
      [] condition = "ParityOdd"  -> ~f.Parity
      [] condition = "ParityEven" -> f.Parity
      [] condition = "Positive"   -> ~f.Sign
      [] condition = "Minus"      -> f.Sign

\* C22: a PUSH executed with SP < 2 halts the machine with reason
\* StackOverflow and leaves SP, PC, the registers and memory unchanged; so do
\* CALL, a taken Ccc and RST with SP < 2.
C22_PushBelowTwoOverflows ==
    (/\ outcome # "None"
     /\ \/ instr.op \in {"Push", "Call", "Rst"}
        \/ instr.op = "Ccc" /\ documented_condition(instr.x, prev.conditions)
     /\ pair_value(prev.registers, "Sp") < 2)
      => (/\ state = Halted("StackOverflow")
          /\ registers = prev.registers
          /\ pc = prev.pc
          /\ memory = prev.memory)

\* PUSH B at address 3 with SP = 1 has halted the machine.
C22_Witness ==
    /\ instr = Ins("Push", "Bc", "-", 0)
    /\ outcome = "StackOverflow"
    /\ state = Halted("StackOverflow")
    /\ registers.sp = Data16_new(1, 0)
    /\ pc = Data16_new(3, 0)

\* C23: POP, RET and a taken Rcc executed with SP = 0xFFFF, where the 16-bit
\* read would extend past address 0xFFFF, halt the machine with reason
\* StackUnderflow and leave SP and the destination register unchanged; with
\* SP <= 0xFFFD they never fault.
C23_PopAtTopUnderflows ==
    (/\ outcome # "None"
     /\ \/ instr.op \in {"Pop", "Ret"}
        \/ instr.op = "Rcc" /\ documented_condition(instr.x, prev.conditions))
      => (/\ pair_value(prev.registers, "Sp") = 65535
               => (/\ state = Halted("StackUnderflow")
                   /\ registers = prev.registers)
          /\ pair_value(prev.registers, "Sp") <= 65533
               => outcome = "Running")

\* C24: a 16-bit memory write whose two bytes would straddle address 0xFFFF
\* (SHLD 0xFFFF) halts the machine with reason MemoryOverflow; no byte is
\* written beyond 0xFFFF and none wraps to address 0.
C24_StraddlingWriteOverflows ==
    (outcome # "None" /\ instr = Ins("Shld", "-", "-", 65535))
      => (/\ state = Halted("MemoryOverflow")
          /\ \A address \in DOMAIN memory : address <= 65535
          /\ Memory_cell(memory, 0) = Memory_cell(prev.memory, 0))

\* C25: machine memory consists of exactly 65,536 byte cells: no instruction
\* executed by run_cycle (its fetch, its 8-bit and its 16-bit accesses) touches
\* a cell at an index >= 0x10000, and no access halts the machine with
\* MemoryOverflow.
C25_MemoryIs64K ==
    [][cycles' = cycles + 1
         => (/\ \A address \in (DOMAIN memory \cup DOMAIN memory') \ (0..65535) :
                   Memory_cell(memory', address) = Memory_cell(memory, address)
             /\ state' # Halted("MemoryOverflow"))]_vars

\* The executed Jcc, Ccc or Rcc has transferred control: the jump or call
\* target is in PC (and the call has pushed), the return has popped.
transferred ==
    CASE instr.op = "Jcc" -> pc = Data16_from(instr.n)
      [] instr.op = "Ccc" -> /\ pc = Data16_from(instr.n)
                             /\ pair_value(registers, "Sp") + 2
                                  = pair_value(prev.registers, "Sp")
      [] OTHER -> pair_value(registers, "Sp") = pair_value(prev.registers, "Sp") + 2

\* C26: for Jcc, Ccc and Rcc and each condition, control transfers iff the
\* fixed predicate holds (NoZero: Z=0, Zero: Z=1, NoCarry: CY=0, Carry: CY=1,
\* ParityOdd: P=0, ParityEven: P=1, Positive: S=0, Minus: S=1); when it is
\* false the instruction changes neither SP nor memory and PC advances by the
\* instruction length.
C26_ConditionPredicates ==
    (instr.op \in {"Jcc", "Ccc", "Rcc"} /\ outcome \in {"Running", "ControlTransfer"})
      => (/\ transferred <=> documented_condition(instr.x, prev.conditions)
          /\ ~documented_condition(instr.x, prev.conditions)
               => (/\ registers.sp = prev.registers.sp
                   /\ memory = prev.memory
                   /\ pc = Data16_from((Data16_value(prev.pc)
                                        + (IF instr.op = "Rcc" THEN 1 ELSE 3)) % 65536)))

\* A JM with only the Sign flag set has jumped.
C26_Witness ==
    /\ instr = Ins("Jcc", "Minus", "-", 8192)
    /\ outcome = "ControlTransfer"
    /\ prev.conditions = [Carry |-> FALSE, AuxiliaryCarry |-> FALSE, Zero |-> FALSE,
                          Sign |-> TRUE, Parity |-> FALSE]
    /\ pc = Data16_new(0, 32)

\* The byte named by register r in registers regs and memory mem (M is the
\* byte at the address held by H and L).
byte_of(regs, mem, r) ==
    CASE r = "A" -> regs.a
      [] r = "B" -> regs.b
      [] r = "C" -> regs.c
      [] r = "D" -> regs.d
      [] r = "E" -> regs.e
      [] r = "H" -> regs.h
      [] r = "L" -> regs.l
      [] r = "M" -> Memory_cell(mem, regs.h * 256 + regs.l)

\* The field of the register map that holds register r (r other than M).
field_of(r) ==
    CASE r = "A" -> "a" [] r = "B" -> "b" [] r = "C" -> "c" [] r = "D" -> "d"
      [] r = "E" -> "e" [] r = "H" -> "h" [] r = "L" -> "l"

\* C27: after MOV d,s the value of d equals the value s had before, M being
\* the memory byte at the current HL; no flag and no register other than d
\* (or the memory byte at HL when d = M) changes, so when d = s, MOV M,M
\* included, nothing changes.
C27_MovCopies ==
    (outcome # "None" /\ instr.op = "Mov")
      => LET moved == byte_of(prev.registers, prev.memory, instr.y)
             hl == prev.registers.h * 256 + prev.registers.l
         IN  /\ outcome = "Running"
             /\ conditions = prev.conditions
             /\ instr.x # "M"
                  => (/\ registers = [prev.registers EXCEPT ![field_of(instr.x)] = moved]
                      /\ memory = prev.memory)
             /\ instr.x = "M"
                  => (/\ registers = prev.registers
                      /\ \A address \in DOMAIN memory \cup DOMAIN prev.memory \cup {hl} :
                            Memory_cell(memory, address)
                              = IF address = hl THEN moved
                                ELSE Memory_cell(prev.memory, address))
             /\ instr.x = instr.y
                  => (registers = prev.registers /\ memory = prev.memory)

\* MOV B,M has copied the byte 0x99 at HL = 0x2007 into B.
C27_Witness ==
    /\ outcome = "Running"
    /\ instr = Ins("Mov", "B", "M", 0)
    /\ prev.registers.b = 34
    /\ prev.registers.h = 32 /\ prev.registers.l = 7
    /\ Memory_cell(prev.memory, 8199) = 153
    /\ registers.b = 153

\* The base-10 text of n < 100000 as ASCII bytes, without leading zeros.
decimal_text(n) ==
    LET digits == <<n \div 10000, (n \div 1000) % 10, (n \div 100) % 10,
                    (n \div 10) % 10, n % 10>>
        first == CHOOSE k \in 1..5 :
                    /\ k = 5 \/ digits[k] # 0
                    /\ \A j \in 1..(k - 1) : digits[j] = 0
    IN  [j \in 1..(6 - first) |-> 48 + digits[first + j - 1]]

\* C28: OUT 0 appends the byte in A to the stdout buffer, OUT 1 the base-10
\* text of A, OUT 2 the base-10 text of the 16-bit HL, OUT to any other port
\* nothing; no other instruction changes the buffer, which therefore only
\* grows by appending (MVI A,41H; OUT 0 leaves the single byte 0x41).
C28_OutAppends ==
    [][cycles' = cycles + 1
         => stdout' = stdout \o
              (IF outcome' # "None" /\ instr'.op = "Out"
               THEN CASE instr'.n = 0 -> <<registers.a>>
                      [] instr'.n = 1 -> decimal_text(registers.a)
                      [] instr'.n = 2 -> decimal_text(registers.h * 256 + registers.l)
                      [] OTHER -> <<>>
               ELSE <<>>)]_vars

\* The whole program MVI A,41H / OUT 0 / OUT 1 / OUT 3 / LXI H,0FFFFH / OUT 2
\* has run: the buffer holds the byte 0x41 and the texts "65" and "65535".
C28_Witness ==
    /\ instr = Ins("Out", "-", "-", 2)
    /\ outcome = "Running"
    /\ prev.stdout = <<65, 54, 53>>
    /\ stdout = <<65, 54, 53, 54, 53, 53, 51, 53>>

-----------------------------------------------------------------------------
(* Further properties of the codec (specification SpecCodec).              *)

\* The opcode bytes the 8080 documentation leaves undefined.
UndocumentedOpcodes == {8, 16, 24, 32, 40, 48, 56, 203, 217, 221, 237, 253}

\* The immediate group and the fixed opcodes named by the documentation.
documented_immediate(b) ==
    CASE b = 198 -> "Adi" [] b = 206 -> "Aci" [] b = 214 -> "Sui" [] b = 222 -> "Sbi"
      [] b = 230 -> "Ani" [] b = 238 -> "Xri" [] b = 246 -> "Ori" [] b = 254 -> "Cpi"

documented_fixed(b) ==
    CASE b = 235 -> "Xchg" [] b = 227 -> "Xthl" [] b = 249 -> "Sphl"
      [] b = 233 -> "Pchl" [] b = 251 -> "Ei" [] b = 243 -> "Di"

\* C29: the codec is total over the documented opcode space: a documented
\* opcode byte followed by its operand bytes decodes to an instruction, in
\* particular the immediate group (ADI 0xC6 ... CPI 0xFE, one operand byte)
\* and the fixed opcodes XCHG, XTHL, SPHL, PCHL, EI, DI; decode returns None
\* only for undocumented opcodes or truncated input.
C29_DecodeIsTotal ==
    (codec.phase = "decoded" /\ codec.ins = NoInstr /\ Len(codec.bytes) = 3)
      => LET b == Head(codec.bytes)
         IN  /\ b \notin UndocumentedOpcodes => codec.out # NoInstr
             /\ b \in {198, 206, 214, 222, 230, 238, 246, 254}
                  => (/\ codec.out = Ins(documented_immediate(b), "-", "-", codec.bytes[2])
                      /\ codec.len = 2)
             /\ b \in {235, 227, 249, 233, 251, 243}
                  => (codec.out = Ins0(documented_fixed(b)) /\ codec.len = 1)

\* The documented base opcode of each family, and the documented codes of the
\* register, register-pair and condition fields.
documented_base(op) ==
    CASE op = "Add" -> 128 [] op = "Adc" -> 136 [] op = "Sub" -> 144 [] op = "Sbb" -> 152
      [] op = "Ana" -> 160 [] op = "Xra" -> 168 [] op = "Ora" -> 176 [] op = "Cmp" -> 184
      [] op = "Lxi" -> 1 [] op = "Stax" -> 2 [] op = "Inx" -> 3 [] op = "Dad" -> 9
      [] op = "Ldax" -> 10 [] op = "Dcx" -> 11
      [] op = "Jcc" -> 194 [] op = "Ccc" -> 196 [] op = "Rcc" -> 192

documented_register(r) ==
    CASE r = "B" -> 0 [] r = "C" -> 1 [] r = "D" -> 2 [] r = "E" -> 3
      [] r = "H" -> 4 [] r = "L" -> 5 [] r = "M" -> 6 [] r = "A" -> 7

documented_pair(rp) ==
    CASE rp = "Bc" -> 0 [] rp = "De" -> 1 [] rp = "Hl" -> 2 [] rp = "Sp" -> 3

documented_cc(cc) ==
    CASE cc = "NoZero" -> 0 [] cc = "Zero" -> 1 [] cc = "NoCarry" -> 2 [] cc = "Carry" -> 3
      [] cc = "ParityOdd" -> 4 [] cc = "ParityEven" -> 5 [] cc = "Positive" -> 6
      [] cc = "Minus" -> 7

\* C30: the first byte emitted by encode is the family base opcode with the
\* operand fields inserted: ADD/ADC/SUB/SBB/ANA/XRA/ORA/CMP r = 0x80/0x88/
\* 0x90/0x98/0xA0/0xA8/0xB0/0xB8 | r; LXI/STAX/INX/DAD/LDAX/DCX rp = 0x01/0x02/
\* 0x03/0x09/0x0A/0x0B | (rp << 4); Jcc/Ccc/Rcc = 0xC2/0xC4/0xC0 | (cc << 3);
\* 16-bit operands follow low byte first, high byte second.
C30_EncodedFirstByte ==
    (codec.phase = "encoded")
      => LET i == codec.ins
             first == codec.bytes[1]
         IN  /\ i.op \in {"Add", "Adc", "Sub", "Sbb", "Ana", "Xra", "Ora", "Cmp"}
                  => first = documented_base(i.op) + documented_register(i.x)
             /\ i.op \in {"Lxi", "Stax", "Inx", "Dad", "Ldax", "Dcx"}
                  => first = documented_base(i.op) + 16 * documented_pair(i.x)
             /\ i.op \in {"Jcc", "Ccc", "Rcc"}
                  => first = documented_base(i.op) + 8 * documented_cc(i.x)
             /\ i.op \in {"Lxi", "Lda", "Sta", "Lhld", "Shld", "Jmp", "Call", "Jcc", "Ccc"}
                  => (/\ Len(codec.bytes) = 3
                      /\ codec.bytes[2] = i.n % 256
                      /\ codec.bytes[3] = i.n \div 256)

\* The byte length the documentation gives the instruction whose opcode byte
\* is b: 3 for LXI, SHLD, LHLD, STA, LDA, JMP, Jcc, CALL, Ccc; 2 for MVI, the
\* immediate group, OUT and IN; 1 otherwise.
opcode_length(b) ==
    CASE b % 16 = 1 /\ b < 64 -> 3
      [] b \in {34, 42, 50, 58, 195, 205} -> 3
      [] b >= 192 /\ b % 8 \in {2, 4} -> 3
      [] b < 64 /\ b % 8 = 6 -> 2
      [] b >= 192 /\ b % 8 = 6 -> 2
      [] b \in {211, 219} -> 2
      [] OTHER -> 1

\* C31: for any input byte sequence, decode either succeeds and advances the
\* reader by exactly the byte length (1, 2 or 3) of the returned instruction,
\* or returns None and leaves the reader where it was; it returns None when
\* the operand bytes the opcode requires are missing, and a 1-byte
\* instruction at the very end of the input decodes as it does elsewhere.
C31_DecodeCursor ==
    (codec.phase = "decoded" /\ codec.ins = NoInstr)
      => LET b == Head(codec.bytes)
         IN  /\ codec.out # NoInstr => codec.len = documented_length(codec.out.op)
             /\ codec.out = NoInstr => codec.len = 0
             /\ Len(codec.bytes) < opcode_length(b) => codec.out = NoInstr
             /\ (Len(codec.bytes) = 1 /\ opcode_length(b) = 1)
                  => codec.out = decode(Reader_new(<<b, 52, 18>>)).ins
-----------------------------------------------------------------------------
(* The assembler (assembler.rs, assembler/labels.rs, assembler/parse.rs,   *)
(* assembler/parse/number.rs). The parser of the parsable crate hands      *)
(* parse_assembly a SourceFile; the model starts from that value.          *)

\* Option<T> of the assembler's values.
SomeOf(v) == [some |-> TRUE, v |-> v]
NoLabel == [some |-> FALSE, v |-> <<>>, index |-> 0]

\* labels.rs: a Label is the Span of the matched label, its span the
\* characters of the label. to_label_ident slices span[..max(len, 5)]; the
\* slice of a span shorter than the range end panics.
to_label_ident(label) ==
    LET end == IF Len(label) > 5 THEN Len(label) ELSE 5
    IN  IF end > Len(label) THEN [panic |-> TRUE, ident |-> <<>>]
        ELSE [panic |-> FALSE, ident |-> SubSeq(label, 1, end)]

\* LabelLookup: the HashMap from identifier to address, as the sequence of
\* its entries (no two with the same identifier).
LabelLookup_new == << >>
LabelLookup_contains(map, ident) ==
    \E k \in 1..Len(map) : map[k].ident = ident
LabelLookup_address(map, ident) ==
    (CHOOSE k \in 1..Len(map) : map[k].ident = ident)
\* LabelLookup::insert: "Ok", "Err" (the identifier is already a key), or
\* "Panic" out of to_label_ident.
LabelLookup_insert(map, label, address) ==
    LET key == to_label_ident(label)
    IN  IF key.panic THEN [r |-> "Panic", map |-> map]
        ELSE IF LabelLookup_contains(map, key.ident)
        THEN [r |-> "Err", map |-> map]
        ELSE [r |-> "Ok",
              map |-> Append(map, [ident |-> key.ident, address |-> address])]
\* LabelLookup::get: Option<Address>, or "Panic" out of to_label_ident.
LabelLookup_get(map, label) ==
    LET key == to_label_ident(label)
    IN  IF key.panic THEN [r |-> "Panic", some |-> FALSE, v |-> 0]
        ELSE IF LabelLookup_contains(map, key.ident)
        THEN [r |-> "Ok", some |-> TRUE,
              v |-> map[LabelLookup_address(map, key.ident)].address]
        ELSE [r |-> "Ok", some |-> FALSE, v |-> 0]

\* number.rs: a LiteralNumber is its digits and its base suffix ("H", "Q",
\* or "-" for none).
parse_hex_digit(digit) ==
    CASE digit = "0" -> 0 [] digit = "1" -> 1 [] digit = "2" -> 2
      [] digit = "3" -> 3 [] digit = "4" -> 4 [] digit = "5" -> 5
      [] digit = "6" -> 6 [] digit = "7" -> 7 [] digit = "8" -> 8
      [] digit = "9" -> 9 [] digit = "A" -> 10 [] digit = "B" -> 11
      [] digit = "C" -> 12 [] digit = "D" -> 13 [] digit = "E" -> 14
      [] digit = "F" -> 15
base_of(literal) ==
    CASE literal.base = "H" -> 16 [] literal.base = "Q" -> 8 [] OTHER -> 10

\* The loop of to_u16 from digit k on. acc is a u32, held as its high and
\* low 16 bits (hi, lo): acc *= base and acc += digit overflow past
\* 2^32 - 1, which panics in a build with overflow checks and wraps in a
\* build without them.
RECURSIVE to_u16_loop(_, _, _, _, _, _)
to_u16_loop(digits, k, base, hi, lo, checks) ==
    IF k > Len(digits)
    THEN IF hi > 0 THEN [r |-> "None", v |-> 0] ELSE [r |-> "Some", v |-> lo]
    ELSE LET digit == parse_hex_digit(digits[k])
             low == lo * base + digit
             high == hi * base + (low \div 65536)
         IN  IF digit >= base THEN [r |-> "None", v |-> 0]
             ELSE IF high >= 65536 /\ checks THEN [r |-> "Panic", v |-> 0]
             ELSE to_u16_loop(digits, k + 1, base, high % 65536, low % 65536,
                              checks)
to_u16(literal, checks) ==
    to_u16_loop(literal.digits, 1, base_of(literal), 0, 0, checks)
\* TryFrom<LiteralNumber> for u8 and for RestartNumber
to_u8(literal, checks) ==
    LET v == to_u16(literal, checks)
    IN  IF v.r = "Some" /\ v.v >= 256 THEN [r |-> "None", v |-> 0] ELSE v
to_RestartNumber(literal, checks) ==
    LET v == to_u8(literal, checks)
    IN  IF v.r = "Some" /\ v.v > 7 THEN [r |-> "None", v |-> 0] ELSE v

\* parse_assembly's results. A panic unwinds out of parse_assembly.
AsmOk(items, origin) ==
    [kind |-> "Ok", items |-> items, origin |-> origin, error |-> "-",
     index |-> 0]
AsmErr(error, index) ==
    [kind |-> "Err", items |-> <<>>, origin |-> 0, error |-> error,
     index |-> index]
AsmPanic ==
    [kind |-> "Panic", items |-> <<>>, origin |-> 0, error |-> "-", index |-> 0]

\* A parsed operand-carrying instruction (parse/instruction.rs): the
\* instruction, and the label its address operand names, if it names one.
instruction_length(parsed) ==
    CASE parsed.ins.op \in {"Lxi", "Lda", "Sta", "Lhld", "Shld", "Jmp", "Jcc",
                            "Call", "Ccc"} -> 3
      [] parsed.ins.op \in {"Mvi", "Adi", "Aci", "Sui", "Sbi", "Ani", "Xri",
                            "Ori", "Cpi", "In", "Out"} -> 2
      [] OTHER -> 1
\* ParsedInstruction::into_inner(&labels): None when the label is unknown.
into_inner(parsed, labels) ==
    IF ~parsed.target.some THEN [r |-> "Some", ins |-> parsed.ins]
    ELSE LET found == LabelLookup_get(labels, parsed.target.v)
         IN  IF found.r = "Panic" THEN [r |-> "Panic", ins |-> NoInstr]
             ELSE IF found.some
             THEN [r |-> "Some", ins |-> [parsed.ins EXCEPT !.n = found.v]]
             ELSE [r |-> "None", ins |-> NoInstr]

\* add_label_segment_opt(label_segment, address): nothing for a line without
\* a label, otherwise labels.insert with the duplicate mapped to an error.
add_label_segment_opt(labels, label_segment, address) ==
    IF ~label_segment.some THEN [r |-> "Ok", map |-> labels]
    ELSE LabelLookup_insert(labels, label_segment.v, address)

\* Pass 1 (assembler.rs 74-81) from line k on.
RECURSIVE pass_1(_, _, _, _)
pass_1(lines, k, labels, current_address) ==
    IF k > Len(lines)
    THEN [r |-> "Ok", labels |-> labels, address |-> current_address,
          index |-> 0]
    ELSE LET added == add_label_segment_opt(labels, lines[k].label,
                                            current_address)
             next == IF lines[k].code.some
                     THEN current_address + instruction_length(lines[k].code)
                     ELSE current_address
         IN  IF added.r = "Panic"
             THEN [r |-> "Panic", labels |-> labels,
                   address |-> current_address, index |-> 0]
             ELSE IF added.r = "Err"
             THEN [r |-> "Duplicate label", labels |-> labels,
                   address |-> current_address, index |-> lines[k].label.index]
             ELSE IF next > 65535
             THEN [r |-> "Memory size overflowed", labels |-> labels,
                   address |-> current_address, index |-> lines[k].code.index]
             ELSE pass_1(lines, k + 1, added.map, next)

\* Pass 2 (assembler.rs 83-90) from line k on, instructions the items so far.
RECURSIVE pass_2(_, _, _, _)
pass_2(lines, k, labels, instructions) ==
    IF k > Len(lines) THEN [r |-> "Ok", items |-> instructions, index |-> 0]
    ELSE IF ~lines[k].code.some THEN pass_2(lines, k + 1, labels, instructions)
    ELSE LET instruction == into_inner(lines[k].code, labels)
         IN  IF instruction.r = "Panic"
             THEN [r |-> "Panic", items |-> <<>>, index |-> 0]
             ELSE IF instruction.r = "None"
             THEN [r |-> "Unknown label", items |-> <<>>,
                   index |-> lines[k].code.index]
             ELSE pass_2(lines, k + 1, labels,
                         Append(instructions, instruction.ins))

\* parse_assembly from the label table on (assembler.rs 30-91).
parse_assembly_passes(source_file, origin_address) ==
    LET origin_label ==
            add_label_segment_opt(LabelLookup_new,
                IF source_file.origin_line.some
                THEN source_file.origin_line.label ELSE NoLabel,
                origin_address)
    IN  IF origin_label.r = "Panic" THEN AsmPanic
        ELSE IF origin_label.r = "Err"
        THEN AsmErr("Duplicate label", source_file.origin_line.label.index)
        ELSE LET first == pass_1(source_file.lines, 1, origin_label.map,
                                 origin_address)
             IN  IF first.r = "Panic" THEN AsmPanic
                 ELSE IF first.r # "Ok" THEN AsmErr(first.r, first.index)
                 ELSE LET second == pass_2(source_file.lines, 1, first.labels,
                                           <<>>)
                      IN  IF second.r = "Panic" THEN AsmPanic
                          ELSE IF second.r # "Ok"
                          THEN AsmErr(second.r, second.index)
                          ELSE AsmOk(second.items, origin_address)

\* parse_assembly after the parser has produced source_file. checks is
\* whether the build has integer overflow checks.
parse_assembly(source_file, checks) ==
    IF ~source_file.origin_line.some
    THEN parse_assembly_passes(source_file, 0)
    ELSE LET address == to_u16(source_file.origin_line.address, checks)
         IN  IF address.r = "Panic" THEN AsmPanic
             ELSE IF address.r = "None"
             THEN AsmErr("Expected address", source_file.origin_line.index)
             ELSE parse_assembly_passes(source_file, address.v)

-----------------------------------------------------------------------------
(* The assembler on its own, and the host loading what it assembled:       *)
(* parse_assembly, encode_program written at the origin, PC set to the     *)
(* origin, then run_cycle (specification SpecAsm). A second family of      *)
(* initial states converts numeric literals.                               *)

\* Bounds: the cycles run on an assembled program, the digits of a sampled
\* literal.
MaxAsmCycles == 4
MaxDigits == 3

\* Labels of the sources.
L_TEST == <<"T", "E", "S", "T">>
L_LONGLABEL == <<"L", "O", "N", "G", "L", "A", "B", "E", "L">>
L_LONGLE == <<"L", "O", "N", "G", "L", "E">>
L_LONGL == <<"L", "O", "N", "G", "L">>
L_LOOP1 == <<"L", "O", "O", "P", "1">>
L_START == <<"S", "T", "A", "R", "T">>
L_FINIS == <<"F", "I", "N", "I", "S">>
L_A == <<"A">>
SampleLabels == {L_TEST, L_LONGLABEL, L_LONGLE, L_LOOP1}

LabelAt(label, index) == [some |-> TRUE, v |-> label, index |-> index]
NoCode == [some |-> FALSE, ins |-> NoInstr, target |-> NoLabel, index |-> 0]
CodeAt(ins, target, index) ==
    [some |-> TRUE, ins |-> ins, target |-> target, index |-> index]
Literal(digits, base) == [digits |-> digits, base |-> base]
NoOrigin ==
    [some |-> FALSE, label |-> NoLabel, address |-> Literal(<<"0">>, "-"),
     index |-> 0]
OriginAt(label, address) ==
    [some |-> TRUE, label |-> label, address |-> address, index |-> 20]
\* The k-th code line: its label (or NoLabel) at offset 100 k, its code at
\* offset 100 k + 10.
CodeLine(k, label, ins, target) ==
    [label |-> IF label = <<>> THEN NoLabel ELSE LabelAt(label, 100 * k),
     code |-> IF ins = NoInstr THEN NoCode
              ELSE CodeAt(ins, IF target = <<>> THEN NoLabel
                               ELSE LabelAt(target, 100 * k + 14),
                          100 * k + 10)]
SourceFile(origin_line, lines, end) ==
    [origin_line |-> origin_line, lines |-> lines, end |-> end]

MOV_A_B == Ins("Mov", "A", "B", 0)
MOV_B_A == Ins("Mov", "B", "A", 0)
JMP(n) == Ins("Jmp", "-", "-", n)

\* Origin lines: none, and ORG with literals at and around the end of the
\* address space, one too large, one overflowing the u32 accumulator.
OriginLiterals ==
    { Literal(<<"1", "0">>, "H"), Literal(<<"1", "6">>, "-"),
      Literal(<<"F", "F", "F", "B">>, "H"),
      Literal(<<"F", "F", "F", "C">>, "H"),
      Literal(<<"F", "F", "F", "A">>, "H"),
      Literal(<<"F", "F", "F", "F">>, "H"),
      Literal(<<"1", "0", "0", "0", "0">>, "H"),
      Literal(<<"1", "0", "0", "0", "0", "0", "0", "1", "0">>, "H") }

\* Three code lines (MOV A,B / JMP target / MOV B,A), each with or without
\* a label; the jump names a label or the address 20.
LabelledSources ==
    { SourceFile(NoOrigin,
                 << CodeLine(1, l1, MOV_A_B, <<>>),
                    CodeLine(2, l2, JMP(20), target),
                    CodeLine(3, l3, MOV_B_A, <<>>) >>, NoLabel) :
        l1 \in SampleLabels \cup {<<>>}, l2 \in SampleLabels \cup {<<>>},
        l3 \in SampleLabels \cup {<<>>},
        target \in SampleLabels \cup {<<>>, L_LONGL} }
\* The same lines under an ORG line and over an END line, either with or
\* without a label, and a line holding a label only.
OriginSources ==
    { SourceFile(OriginAt(IF l0 = <<>> THEN NoLabel ELSE LabelAt(l0, 10),
                          address),
                 << CodeLine(1, <<>>, MOV_A_B, <<>>),
                    CodeLine(2, <<>>, JMP(20), target),
                    CodeLine(3, l3, MOV_B_A, <<>>),
                    CodeLine(4, l4, NoInstr, <<>>) >>,
                 IF l5 = <<>> THEN NoLabel ELSE LabelAt(l5, 500)) :
        l0 \in {<<>>, L_START}, address \in OriginLiterals,
        target \in {<<>>, L_TEST, L_LOOP1, L_START, L_FINIS},
        l3 \in {<<>>, L_TEST, L_LOOP1, L_A},
        l4 \in {<<>>, L_START}, l5 \in {<<>>, L_FINIS, L_START} }

\* Programs without control transfer.
StraightInstructions ==
    { MOV_A_B, Ins("Mvi", "A", "-", 5), Ins("Lxi", "Hl", "-", 4660),
      Ins("Add", "B", "-", 0), Ins("Adc", "B", "-", 0),
      Ins("Inx", "Hl", "-", 0), Ins("Sta", "-", "-", 12288) }
StraightSources ==
    { SourceFile(OriginAt(NoLabel, address),
                 << CodeLine(1, <<>>, i1, <<>>), CodeLine(2, L_LOOP1, i2, <<>>),
                    CodeLine(3, L_LONGLE, i3, <<>>) >>, NoLabel) :
        address \in { Literal(<<"1", "0">>, "H"),
                      Literal(<<"2", "0", "0", "0">>, "H") },
        i1 \in StraightInstructions, i2 \in StraightInstructions,
        i3 \in StraightInstructions }

\* Literals: every digit string of up to MaxDigits sampled digits under each
\* base, and longer strings around 2^16 and 2^32.
SampleDigits == {"0", "1", "7", "8", "9", "F"}
RECURSIVE DigitStrings(_)
DigitStrings(n) ==
    IF n = 0 THEN {<<>>}
    ELSE { Append(digits, d) : digits \in DigitStrings(n - 1), d \in SampleDigits }
LongDigits ==
    { <<"F", "F", "F", "F">>, <<"1", "0", "0", "0", "0">>,
      <<"6", "5", "5", "3", "5">>, <<"6", "5", "5", "3", "6">>,
      <<"1", "7", "7", "7", "7", "7">>, <<"2", "0", "0", "0", "0", "0">>,
      <<"F", "F", "F", "F", "F", "F", "F", "F">>,
      <<"1", "0", "0", "0", "0", "0", "0", "0", "0">>,
      <<"1", "0", "0", "0", "0", "0", "0", "0", "7">>,
      <<"4", "2", "9", "4", "9", "6", "7", "2", "9", "5">>,
      <<"4", "2", "9", "4", "9", "6", "7", "2", "9", "6">>,
      <<"4", "0", "0", "0", "0", "0", "0", "0", "0", "0", "0">>,
      <<"4", "0", "0", "0", "0", "0", "0", "0", "0", "0", "7">> }
Literals ==
    { Literal(digits, base) :
        digits \in UNION { DigitStrings(n) : n \in 1..MaxDigits } \cup LongDigits,
        base \in {"H", "Q", "-"} }

NoNumber == [r |-> "-", v |-> 0]
NoResult ==
    [kind |-> "-", items |-> <<>>, origin |-> 0, error |-> "-", index |-> 0]
AsmSource(source_file, checks) ==
    [phase |-> "source", source |-> source_file, checks |-> checks,
     result |-> NoResult]
AsmLiteral(literal, checks) ==
    [phase |-> "literal", literal |-> literal, checks |-> checks,
     u16 |-> NoNumber, u8 |-> NoNumber, rst |-> NoNumber]

InitAsm ==
    /\ state = Machine_new(<<>>).state
    /\ memory = Machine_new(<<>>).memory
    /\ registers = Machine_new(<<>>).registers
    /\ conditions = Machine_new(<<>>).conditions
    /\ pc = Machine_new(<<>>).pc
    /\ stdout = Machine_new(<<>>).stdout
    /\ stdin = <<>>
    /\ cycles = 0
    /\ instr = NoInstr
    /\ outcome = "None"
    /\ prev = Machine_new(<<>>)
    /\ codec = idle_codec
    /\ ui = idle_ui
    /\ \/ \E source_file \in LabelledSources \cup StraightSources :
             asm = AsmSource(source_file, FALSE)
       \/ \E source_file \in OriginSources, checks \in BOOLEAN :
             asm = AsmSource(source_file, checks)
       \/ \E literal \in Literals, checks \in BOOLEAN :
             asm = AsmLiteral(literal, checks)

\* assembler::parse_assembly(source)
Assemble ==
    /\ asm.phase = "source"
    /\ asm' = [asm EXCEPT !.phase = "assembled",
                          !.result = parse_assembly(asm.source, asm.checks)]
    /\ UNCHANGED <<state, memory, registers, conditions, pc, stdout, stdin,
                   cycles, instr, outcome, prev, codec, ui>>

\* coding::encode_program(&mut buffer, &items): the encodings of the items
\* from the k-th on, one after the other.
RECURSIVE encode_program(_, _)
encode_program(items, k) ==
    IF k > Len(items) THEN <<>>
    ELSE encode(items[k]) \o encode_program(items, k + 1)

\* The host writes the encoded items at the origin and sets PC to it.
AsmLoad ==
    /\ asm.phase = "assembled"
    /\ asm.result.kind = "Ok"
    /\ memory' = Memory_write_slice(memory, asm.result.origin,
                                    encode_program(asm.result.items, 1)).mem
    /\ pc' = Data16_from(asm.result.origin)
    /\ asm' = [asm EXCEPT !.phase = "loaded"]
    /\ prev' = Mach
    /\ UNCHANGED <<state, registers, conditions, stdout, stdin, cycles, instr,
                   outcome, codec, ui>>

\* The host calls run_cycle on the loaded machine.
AsmRunCycle ==
    /\ asm.phase = "loaded"
    /\ cycles < MaxAsmCycles
    /\ Becomes(run_cycle(Mach))
    /\ instr' = IF state.kind = "Running" THEN load(Mach) ELSE NoInstr
    /\ outcome' = outcome_of(Mach, instr')
    /\ prev' = Mach
    /\ cycles' = cycles + 1
    /\ UNCHANGED <<codec, asm, ui>>

\* u16::try_from, u8::try_from and RestartNumber::try_from of a literal
ConvertNumber ==
    /\ asm.phase = "literal"
    /\ asm' = [asm EXCEPT !.phase = "converted",
                          !.u16 = to_u16(asm.literal, asm.checks),
                          !.u8 = to_u8(asm.literal, asm.checks),
                          !.rst = to_RestartNumber(asm.literal, asm.checks)]
    /\ UNCHANGED <<state, memory, registers, conditions, pc, stdout, stdin,
                   cycles, instr, outcome, prev, codec, ui>>

NextAsm == Assemble \/ AsmLoad \/ AsmRunCycle \/ ConvertNumber

SpecAsm == InitAsm /\ [][NextAsm]_vars

-----------------------------------------------------------------------------
(* Properties of the assembler (specification SpecAsm).                    *)

\* The canonical form of a label: its first five characters.
canonical(label) == SubSeq(label, 1, IF Len(label) < 5 THEN Len(label) ELSE 5)
\* The code lines of the assembled source that carry a label.
labelled_lines == { k \in 1..Len(asm.source.lines) : asm.source.lines[k].label.some }
label_of(k) == asm.source.lines[k].label.v
\* Two labelled code lines whose labels have the same canonical form.
labels_collide ==
    \E j \in labelled_lines, k \in labelled_lines :
        j # k /\ canonical(label_of(j)) = canonical(label_of(k))
\* Every operand of the source that names a label names one of a code line.
operands_defined ==
    \A k \in 1..Len(asm.source.lines) :
        (asm.source.lines[k].code.some /\ asm.source.lines[k].code.target.some)
          => \E j \in labelled_lines :
                 canonical(label_of(j)) = canonical(asm.source.lines[k].code.target.v)

\* C32: labels are canonicalized to their first five characters before
\* insertion and lookup: a source in which two code-line labels agree on
\* their first five characters (LONGLABEL and LONGLE) is rejected with a
\* duplicate-label error, and a source whose labels have one to five
\* characters, no two alike, and whose operands are defined is accepted.
C32_LabelCanonical ==
    (asm.phase = "assembled" /\ ~asm.source.origin_line.some
       /\ ~asm.source.end.some)
      => /\ labels_collide
              => (asm.result.kind = "Err" /\ asm.result.error = "Duplicate label")
         /\ (~labels_collide /\ operands_defined /\ labelled_lines # {}
               /\ \A k \in labelled_lines : Len(label_of(k)) \in 1..5)
              => asm.result.kind = "Ok"

\* The mathematical value of a digit string in a base, capped at 2^16 (every
\* value above 0xFFFF is represented by 65536).
RECURSIVE capped_value(_, _, _)
capped_value(digits, n, base) ==
    IF n = 0 THEN 0
    ELSE LET v == capped_value(digits, n - 1, base) * base
                    + parse_hex_digit(digits[n])
         IN  IF v > 65535 THEN 65536 ELSE v
\* The radix a literal's suffix stands for.
radix(literal) ==
    IF literal.base = "H" THEN 16 ELSE IF literal.base = "Q" THEN 8 ELSE 10
literal_value(literal) ==
    capped_value(literal.digits, Len(literal.digits), radix(literal))
digits_in_base(literal) ==
    \A k \in 1..Len(literal.digits) :
        parse_hex_digit(literal.digits[k]) < radix(literal)
\* The origin the source asks for: the value of the ORG literal, 0 without.
origin_value ==
    IF asm.source.origin_line.some
    THEN literal_value(asm.source.origin_line.address) ELSE 0
origin_valid ==
    asm.source.origin_line.some
      => (digits_in_base(asm.source.origin_line.address) /\ origin_value <= 65535)
\* The encoded lengths of the instructions on the code lines before line j.
RECURSIVE lengths_before(_)
lengths_before(j) ==
    IF j <= 1 THEN 0
    ELSE lengths_before(j - 1)
           + (IF asm.source.lines[j - 1].code.some
              THEN documented_length(asm.source.lines[j - 1].code.ins.op) ELSE 0)
line_address(j) == origin_value + lengths_before(j)
\* The number of code segments on the lines up to line k.
code_segments(k) ==
    Cardinality({ j \in 1..k : asm.source.lines[j].code.some })
\* A source with labels on code lines only, all different, every operand
\* defined, whose instructions end below the top of the address space.
plain_source ==
    /\ ~asm.source.end.some
    /\ asm.source.origin_line.some => ~asm.source.origin_line.label.some
    /\ origin_valid
    /\ ~labels_collide
    /\ operands_defined
    /\ line_address(Len(asm.source.lines) + 1) <= 65535

\* C33: a label on a code line resolves to the origin plus the encoded
\* lengths of the instructions on the earlier code lines (origin 0 without
\* ORG), and every operand naming it, before or after its definition, is
\* replaced by that address: ORG 10H / MOV A,B / JMP TEST / TEST: MOV B,A
\* assembles to [MOV A,B; JMP 20; MOV B,A] with origin 16.
C33_LabelResolution ==
    (asm.phase = "assembled" /\ plain_source)
      => /\ asm.result.kind = "Ok"
         /\ asm.result.origin = origin_value
         /\ \A k \in 1..Len(asm.source.lines), j \in labelled_lines :
                (/\ asm.source.lines[k].code.some
                 /\ asm.source.lines[k].code.target.some
                 /\ canonical(asm.source.lines[k].code.target.v)
                      = canonical(label_of(j)))
                  => asm.result.items[code_segments(k)].n = line_address(j)

\* The same label is written on two code lines.
label_defined_twice ==
    \E j \in labelled_lines, k \in labelled_lines :
        j # k /\ label_of(j) = label_of(k)
\* Every operand naming a label names, in full, the label of a code line.
operands_defined_in_full ==
    \A k \in 1..Len(asm.source.lines) :
        (asm.source.lines[k].code.some /\ asm.source.lines[k].code.target.some)
          => \E j \in labelled_lines :
                 label_of(j) = asm.source.lines[k].code.target.v
\* The offsets of the labels and of the instructions of the source.
source_offsets ==
    { asm.source.lines[k].label.index : k \in labelled_lines }
    \cup { asm.source.lines[k].code.index :
             k \in { j \in 1..Len(asm.source.lines) : asm.source.lines[j].code.some } }
\* The code lines of the source, in order.
RECURSIVE code_lines_from(_)
code_lines_from(k) ==
    IF k > Len(asm.source.lines) THEN <<>>
    ELSE IF asm.source.lines[k].code.some
    THEN <<k>> \o code_lines_from(k + 1)
    ELSE code_lines_from(k + 1)

\* C34: parse_assembly never partially succeeds. A source in which a label
\* is defined twice, or an operand names a label that no line defines, gives
\* one error (duplicate label or unknown label, with an offset of the
\* source) and no instruction list; any other source gives the complete
\* list, one item per code segment, in source order.
C34_AllOrNothing ==
    (/\ asm.phase = "assembled"
     /\ ~asm.source.end.some
     /\ asm.source.origin_line.some => ~asm.source.origin_line.label.some
     /\ origin_valid
     /\ line_address(Len(asm.source.lines) + 1) <= 65535)
      => /\ (label_defined_twice \/ ~operands_defined)
              => /\ asm.result.kind = "Err"
                 /\ asm.result.error \in {"Duplicate label", "Unknown label"}
                 /\ asm.result.index \in source_offsets
                 /\ asm.result.items = <<>>
         /\ (~labels_collide /\ operands_defined_in_full)
              => /\ asm.result.kind = "Ok"
                 /\ Len(asm.result.items) = Len(code_lines_from(1))
                 /\ \A n \in 1..Len(asm.result.items) :
                        /\ asm.result.items[n].op
                             = asm.source.lines[code_lines_from(1)[n]].code.ins.op
                        /\ asm.result.items[n].x
                             = asm.source.lines[code_lines_from(1)[n]].code.ins.x
                        /\ asm.result.items[n].y
                             = asm.source.lines[code_lines_from(1)[n]].code.ins.y

\* Every label of the source with the address the two-pass resolution
\* gives it: the ORG line's label at the origin, a code line's label at the
\* line's address, the END line's label just past the last instruction (at:
\* 0 for the ORG line, k for the k-th code line, one more for the END line).
end_line == Len(asm.source.lines) + 1
source_labels ==
    (IF asm.source.origin_line.some /\ asm.source.origin_line.label.some
     THEN {[at |-> 0, label |-> asm.source.origin_line.label.v,
            address |-> origin_value]} ELSE {})
    \cup { [at |-> k, label |-> label_of(k), address |-> line_address(k)] :
             k \in labelled_lines }
    \cup (IF asm.source.end.some
          THEN {[at |-> end_line, label |-> asm.source.end.v,
                 address |-> line_address(end_line)]} ELSE {})
some_labels_collide ==
    \E d \in source_labels, e \in source_labels :
        d.at # e.at /\ canonical(d.label) = canonical(e.label)
all_operands_defined ==
    \A k \in 1..Len(asm.source.lines) :
        (asm.source.lines[k].code.some /\ asm.source.lines[k].code.target.some)
          => \E d \in source_labels :
                 canonical(d.label) = canonical(asm.source.lines[k].code.target.v)

\* C35: the labels of the ORG line and of the END line are in the label
\* table: the ORG line's label is bound to the origin, the END line's label
\* to the address just past the last instruction, an operand naming either
\* is replaced by that address, and either colliding with another label is a
\* duplicate-label error.
C35_OriginEndLabels ==
    (/\ asm.phase = "assembled"
     /\ asm.source.origin_line.some
     /\ asm.source.origin_line.label.some \/ asm.source.end.some
     /\ origin_valid
     /\ line_address(Len(asm.source.lines) + 1) <= 65535)
      => /\ some_labels_collide
              => (asm.result.kind = "Err" /\ asm.result.error = "Duplicate label")
         /\ (~some_labels_collide /\ all_operands_defined)
              => /\ asm.result.kind = "Ok"
                 /\ \A k \in 1..Len(asm.source.lines), d \in source_labels :
                        (/\ asm.source.lines[k].code.some
                         /\ asm.source.lines[k].code.target.some
                         /\ d.at \in {0, end_line}
                         /\ canonical(asm.source.lines[k].code.target.v)
                              = canonical(d.label))
                          => asm.result.items[code_segments(k)].n = d.address

\* C36: a numeric literal is read in base 16 with the suffix H, base 8 with
\* Q and base 10 otherwise; it is rejected if a digit is not below the base,
\* and whenever its mathematical value exceeds 0xFFFF, however long the
\* digit string (no wrap-around); the conversion to u8 rejects values of
\* 0x100 and above, the conversion to RestartNumber values outside 0..7.
C36_NumberRange ==
    asm.phase = "converted"
      => LET value == literal_value(asm.literal)
             valid == digits_in_base(asm.literal)
         IN  /\ asm.u16 = IF valid /\ value <= 65535
                          THEN [r |-> "Some", v |-> value]
                          ELSE [r |-> "None", v |-> 0]
             /\ asm.u8 = IF valid /\ value < 256
                         THEN [r |-> "Some", v |-> value]
                         ELSE [r |-> "None", v |-> 0]
             /\ asm.rst = IF valid /\ value <= 7
                          THEN [r |-> "Some", v |-> value]
                          ELSE [r |-> "None", v |-> 0]

\* A source whose labels raise no question: none on the END line, each of
\* five characters or more, no two alike, every operand naming one in full.
clean_labels ==
    /\ ~asm.source.end.some
    /\ ~some_labels_collide
    /\ operands_defined_in_full
    /\ \A d \in source_labels : Len(d.label) >= 5
\* The address of the last byte of the program.
last_byte == line_address(end_line) - 1

\* C37: pass 1 fails with an address-space overflow exactly when the program
\* would occupy an address past 0xFFFF; a program whose last byte lies at
\* 0xFFFF or below is accepted.
C37_AddressOverflow ==
    (asm.phase = "assembled" /\ origin_valid /\ clean_labels)
      => /\ (asm.result.kind = "Err"
               /\ asm.result.error = "Memory size overflowed")
              <=> last_byte > 65535
         /\ last_byte <= 65535 => asm.result.kind = "Ok"

\* The instructions that transfer control or stop the machine.
ControlTransfers ==
    {"Jmp", "Jcc", "Call", "Ccc", "Ret", "Rcc", "Rst", "Pchl", "Hlt"}
\* The encoded lengths of the first n items of the assembler's output.
RECURSIVE items_length(_)
items_length(n) ==
    IF n = 0 THEN 0
    ELSE items_length(n - 1) + documented_length(asm.result.items[n].op)

\* C38: for an assembler output (items, origin) without control transfer,
\* written encoded at the origin with PC set to the origin, the PC before
\* the k-th run_cycle is the address pass 1 gave the k-th instruction (the
\* origin plus the lengths of the instructions before it), and the k-th
\* cycle executes that instruction.
C38_RunsInSourceOrder ==
    (/\ asm.phase = "loaded"
     /\ cycles \in 1..Len(asm.result.items)
     /\ \A n \in 1..Len(asm.result.items) :
            asm.result.items[n].op \notin ControlTransfers)
      => /\ Data16_value(prev.pc)
              = asm.result.origin + items_length(cycles - 1)
         /\ Data16_value(prev.pc) = line_address(code_lines_from(1)[cycles])
         /\ instr = asm.result.items[cycles]

-----------------------------------------------------------------------------
(* The terminal UI (ui.rs): start has built the Ui around a loaded machine *)
(* and spawned the UI thread, which loops over tick, poll, read and input; *)
(* start itself waits on the quit channel (specification SpecUi, and       *)
(* SpecUiFair with the scheduling of the waiting receiver).                *)

\* Bound: the steps of the UI thread (ticks and polls) that are explored.
MaxUiSteps == 8

\* The programs start is given: MVI A,1 / INR A / 0x20, and 0x20 alone (no
\* instruction has the opcode 0x20: the machine halts on it).
UiPrograms ==
    { <<[at |-> 0, bytes |-> <<62, 1, 60, 32>>]>>,
      <<[at |-> 0, bytes |-> <<32>>]>> }
\* The keys of a key event: Char('q'), Char(' '), Char('p'), Char('c') with
\* CONTROL, and any other key.
UiKeys == {"q", "space", "p", "ctrl-c", "other"}

\* Ui::new(machine, quit_sender.clone()) and the spawned thread about to
\* call tick; the channel is empty, both senders are held by the thread.
Ui_new ==
    [phase |-> "started", state |-> "Paused", thread |-> "tick",
     event |-> "-", queue |-> 0, senders |-> TRUE, receiver |-> TRUE,
     main |-> "waiting", requests |-> 0, steps |-> 0]

InitUi ==
    /\ stdin = <<>>
    /\ state = Machine_new(stdin).state
    /\ \E image \in UiPrograms : memory = load_image(Memory_new, image, 1)
    /\ registers = Machine_new(stdin).registers
    /\ conditions = Machine_new(stdin).conditions
    /\ pc = Machine_new(stdin).pc
    /\ stdout = Machine_new(stdin).stdout
    /\ cycles = 0
    /\ instr = NoInstr
    /\ outcome = "None"
    /\ prev = [Machine_new(stdin) EXCEPT !.memory = memory]
    /\ codec = idle_codec
    /\ asm = idle_asm
    /\ ui = Ui_new

\* self.machine.run_cycle() when advance holds, nothing otherwise.
UiMachine(advance) ==
    /\ IF advance
       THEN /\ Becomes(run_cycle(Mach))
            /\ instr' = IF state.kind = "Running" THEN load(Mach) ELSE NoInstr
            /\ outcome' = outcome_of(Mach, instr')
            /\ cycles' = cycles + 1
       ELSE UNCHANGED <<state, memory, registers, conditions, pc, stdout,
                        stdin, cycles, instr, outcome>>
    /\ prev' = Mach
    /\ UNCHANGED <<codec, asm>>

\* Ui::tick calls run_cycle while the UI is Running.
tick_advances(ui_state) == ui_state = "Running"
\* Ui::input calls run_cycle for Char(' ') while the UI is Paused.
input_advances_in_any_state(ui_state, key) == key = "space"
input_advances(ui_state, key) == key = "space" /\ ui_state = "Paused"
\* Ui::input, Char('p'): the UiState after the key.
input_state(ui_state, key, machine_state) ==
    IF key = "p" /\ machine_state.kind = "Running"
    THEN (IF ui_state = "Paused" THEN "Running" ELSE "Paused")
    ELSE ui_state

\* The thread's closure returns with an error: the Ui and the closure's own
\* quit_sender are dropped.
thread_ended_keeping_a_sender(u, event) ==
    [u EXCEPT !.thread = "ended", !.event = event, !.steps = u.steps + 1]
thread_ended(u, event) ==
    [u EXCEPT !.thread = "ended", !.senders = FALSE, !.event = event,
              !.steps = u.steps + 1]
\* quit_sender.send(())?: queued while the receiver lives, an error after.
\* requests counts the quit requests of the thread.
quit_sent(u, event) ==
    IF u.receiver
    THEN [u EXCEPT !.queue = u.queue + 1, !.thread = "tick", !.event = event,
                   !.requests = u.requests + 1, !.steps = u.steps + 1]
    ELSE [thread_ended(u, event) EXCEPT !.requests = u.requests + 1]

\* ui.tick(&mut terminal)?: a cycle while Running, then draw, which fails or
\* not.
UiTick ==
    /\ ui.thread = "tick"
    /\ ui.steps < MaxUiSteps
    /\ UiMachine(tick_advances(ui.state))
    /\ \E drawn \in BOOLEAN :
           ui' = IF drawn
                 THEN [ui EXCEPT !.thread = "poll", !.event = "tick",
                                 !.steps = ui.steps + 1]
                 ELSE thread_ended(ui, "tick")

\* event::poll(100 ms)? and event::read()? without a key event: no event in
\* time, an event that is no key event, or an error of either call.
UiPoll ==
    /\ ui.thread = "poll"
    /\ ui.steps < MaxUiSteps
    /\ UiMachine(FALSE)
    /\ \E polled \in {"none", "error"} :
           ui' = IF polled = "error" THEN thread_ended(ui, "error")
                 ELSE [ui EXCEPT !.thread = "tick", !.event = "none",
                                 !.steps = ui.steps + 1]

\* A key event is read: Ctrl-C sends on the closure's quit_sender, every
\* other key goes to ui.input(key_event)?.
UiKey ==
    /\ ui.thread = "poll"
    /\ ui.steps < MaxUiSteps
    /\ \E key \in UiKeys :
           /\ UiMachine(input_advances(ui.state, key))
           /\ ui' = IF key \in {"q", "ctrl-c"} THEN quit_sent(ui, key)
                    ELSE [ui EXCEPT !.state = input_state(ui.state, key, state),
                                    !.thread = "tick", !.event = key,
                                    !.steps = ui.steps + 1]

\* start's quit_receiver.iter().next(): it blocks while the channel is empty
\* and a sender lives; a message lets start restore the terminal (each call
\* of which may fail) and return, no message and no sender is the error
\* "UI channel broken". Returning drops the receiver.
MainReceive ==
    /\ ui.main = "waiting"
    /\ ui.queue > 0 \/ ~ui.senders
    /\ \E restored \in BOOLEAN :
           ui' = IF ui.queue > 0
                 THEN [ui EXCEPT !.queue = ui.queue - 1, !.receiver = FALSE,
                                 !.main = IF restored THEN "Ok"
                                          ELSE "restore error"]
                 ELSE [ui EXCEPT !.receiver = FALSE,
                                 !.main = "UI channel broken"]
    /\ UNCHANGED <<state, memory, registers, conditions, pc, stdout, stdin,
                   cycles, instr, outcome, prev, codec, asm>>

NextUi == UiTick \/ UiPoll \/ UiKey \/ MainReceive

SpecUi == InitUi /\ [][NextUi]_vars

\* The receiver blocked in start is woken when a message arrives or when the
\* last sender is dropped.
SpecUiFair == SpecUi /\ WF_vars(MainReceive)

-----------------------------------------------------------------------------
(* Properties of the UI (specifications SpecUi and SpecUiFair).            *)

\* A step of the UI thread, and whether the machine differs after it.
thread_step == ui'.steps = ui.steps + 1
machine_changed == Mach' # Mach
UiStepping ==
    thread_step
      => /\ machine_changed
              => \/ ui'.event = "tick" /\ ui.state = "Running"
                 \/ ui'.event = "space" /\ ui.state = "Paused"
         /\ Mach' \in {Mach, run_cycle(Mach)}
         /\ cycles' <= cycles + 1
         /\ (ui.state = "Paused" /\ ui'.event # "space") => ~machine_changed
         /\ (ui.state = "Running" /\ ui'.event = "space")
              => (~machine_changed /\ cycles' = cycles /\ ui'.state = "Running")
         /\ ui'.state # ui.state
              <=> (ui'.event = "p" /\ state.kind = "Running")

\* C39: the UI starts Paused; the machine is advanced only by a tick while
\* the UI is Running or by a Space key while it is Paused, by at most one
\* instruction each; while Paused without a Space key the machine does not
\* change, Space is ignored while Running, and P toggles Running/Paused
\* exactly while the machine itself is still Running.
C39_UiStepping ==
    /\ ui.state = "Paused"
    /\ [][UiStepping]_vars

\* A Space key has advanced the paused machine past its second instruction.
C39_Witness ==
    /\ ui.event = "space"
    /\ ui.state = "Paused"
    /\ cycles = 2
    /\ pc = Data16_from(3)
    /\ registers.a = 2

\* start has returned: Ok, the error of restoring the terminal, or the
\* error "UI channel broken".
start_returned == ui.main # "waiting"
\* The UI thread has sent a quit request that start has not yet received.
quit_pending == ui.main = "waiting" /\ ui.requests >= 1
\* The UI thread has terminated without ever sending a quit request.
thread_lost == ui.main = "waiting" /\ ui.thread = "ended" /\ ui.requests = 0

\* C40 as stated: start does not block forever once the UI thread has sent
\* a quit request or has terminated: it returns Ok after the first quit
\* request (Q or Ctrl-C), and the error "UI channel broken" if the thread
\* terminates (tick, poll or input error) without having sent one.
C40_StartReturns ==
    /\ quit_pending ~> ui.main = "Ok"
    /\ thread_lost ~> ui.main = "UI channel broken"
    /\ [](ui.main = "UI channel broken" => (ui.thread = "ended" /\ ui.requests = 0))

\* C40, amended: after the first quit request start returns Ok unless one of
\* the calls that restore the terminal fails, in which case it returns that
\* error; everything else as stated.
C40_StartReturnsOrRestoreFails ==
    /\ quit_pending ~> ui.main \in {"Ok", "restore error"}
    /\ thread_lost ~> ui.main = "UI channel broken"
    /\ [](ui.main = "UI channel broken" => (ui.thread = "ended" /\ ui.requests = 0))
    /\ [](ui.main \in {"Ok", "restore error"} => ui.requests >= 1)

\* The thread has died of a draw error after its Q was queued, start has
\* received the request and returned Ok.
C40_Witness ==
    /\ ui.main = "Ok"
    /\ ui.requests = 1
    /\ ui.thread = "ended"
    /\ ui.queue = 0
    /\ ~ui.receiver

====
